---- MODULE Spec2Model ----
(***************************************************************************)
(* KoeKit: the real-time output pipeline (audio_output.h/.cpp), the        *)
(* sample-to-PWM mapping and the envelope generators (core/envelope.h).    *)
(*                                                                         *)
(* Real numbers are modelled on integer grids:                             *)
(*   - an audio sample s is the integer k with s = k / SampleScale, or the *)
(*     value NaN;                                                          *)
(*   - an envelope level l is the integer k with l = k / LevelScale;       *)
(*   - envelope times are in milliseconds, sample rates in Hz.             *)
(* The timer interrupt runs to completion once it starts (one core, the    *)
(* foreground cannot preempt it), so a firing is one action; the           *)
(* foreground calls are split at every point where a firing can come in.   *)
(***************************************************************************)
EXTENDS Integers, Naturals, Sequences, FiniteSets, TLC

\* ------------------------------------------------------------------------
\* Bounds and program constants
\* ------------------------------------------------------------------------
SampleScale == 8            \* samples are k/SampleScale
MaxOver == 4                \* samples reach MaxOver grid steps outside [-1,1]
\* the float value NaN: a sentinel outside every sample grid
NaN == 999999
NULL == "null"
NONE == "none"

PWM_RESOLUTION == 12
PWM_MAX_VALUE == 2^PWM_RESOLUTION - 1
PWM_CENTER == PWM_MAX_VALUE \div 2
UINT16_MAX == 65535
NO_PIN == 255

Samples == ((0 - SampleScale - MaxOver) .. (SampleScale + MaxOver)) \cup {NaN}
\* what the conversion of a NaN float to uint16_t can produce (undefined
\* behaviour: any 16-bit value)
CastOutcomes == {0, PWM_CENTER, PWM_MAX_VALUE, PWM_MAX_VALUE + 1, UINT16_MAX}

Pins == {1, 2}
Rates == {22050, 44100}
Callbacks == {"cbA", "cbB"}
\* the values a user callback returns in the pipeline model
CallbackSamples == {0 - SampleScale - MaxOver, 0, 5, SampleScale, NaN}

\* Envelopes: a level l is the integer l * LevelScale, times are in
\* milliseconds, sample rates in Hz
LevelScale == 120
MIN_TIME == 1                               \* 0.001f seconds
DEFAULT_ATTACK == 10                        \* 0.01f seconds
DEFAULT_DECAY == 100                        \* 0.1f seconds
DEFAULT_SUSTAIN == (7 * LevelScale) \div 10 \* 0.7f
DEFAULT_RELEASE == 300                      \* 0.3f seconds
\* arguments passed to the single time setters (longer times reach the ADSR
\* envelope through setADSR), to setAR and to the sustain setter
TimeArgs == {0 - 5}
ARTimeArgs == {0 - 5, 200}
SustainArgs == {0 - 30, LevelScale \div 2, LevelScale + 30, NaN}
\* the level below which a falling float level no longer changes (the magnitude
\* at which the increment is absorbed by rounding), on the level grid
LevelFloor == 0 - (LevelScale \div 4)
\* the argument lists passed to setADSR
ADSRArgs == {<<0 - 5, 0 - 5, LevelScale \div 2, 0 - 5>>,
             <<200, 0 - 5, 0 - 30, 200>>,
             <<200, 200, LevelScale + 30, 0 - 5>>}
\* sample rates: the build-time default KOEKIT_SAMPLE_RATE of an instance
\* and the arguments of setSampleRate
EnvRates == {5, 10}

\* Oscillator: a phase p is the integer p * PhaseScale, an amplitude a the
\* integer a * AmpScale, frequencies and sample rates are in Hz
PhaseScale == 8
AmpScale == 4
\* KOEKIT_WAVETABLE_SIZE of the modelled build
TABLE_SIZE == 4
SAMPLE_SCALE == 32767
\* the build-time KOEKIT_SAMPLE_RATE of an instance and the arguments of
\* setSampleRate
OscRates == {4, 8}
\* arguments of setFrequency: negative, below and above the sample rate
FreqArgs == {0 - 3, 1, 5, 20}
\* arguments of setPhase: negative, inside [0,1), exactly 1 and above 2
PhaseArgs == {0 - 5, 0, 7, PhaseScale, 2 * PhaseScale + 3}
\* arguments of setAmplitude
AmpArgs == {0 - 2, 1, AmpScale + 5, NaN}
\* tick() is followed while the phase is within this many cycles of 0
MaxCycles == 2
\* process() calls counted from phase 0
MaxRun == 4

\* Noise source: width of the state word, process() calls followed after a
\* seed
WORD == 32
MaxNoiseCalls == 40

\* Filters: grids, defaults and clamping ranges
CoefScale == 1000
FiltScale == 8
SvfScale == 1000
ResScale == 10                  \* a resonance r is the integer r * ResScale
DEFAULT_CUTOFF == 1000          \* 1000.0f Hz
DEFAULT_RESONANCE == 7          \* 0.7f
RES_MIN == 1                    \* 0.1f
RES_MAX == 10 * ResScale        \* 10.0f
F_MAX == (19 * CoefScale) \div 10   \* 1.9f
Q_MIN == CoefScale \div 100     \* 0.01f
Q_MAX == 2 * CoefScale          \* 2.0f
\* the build-time KOEKIT_SAMPLE_RATE of a filter and the arguments of
\* setSampleRate
FilterRates == {22050, 44100}
\* arguments of the cutoff setters: below 1 Hz, in range, above the maximum
CutoffArgs == {0 - 5, 5000, 30000}
\* arguments of the resonance setters: 0, 0.5, 2.0 and 50
ResonanceArgs == {0, 5, 20, 500}
\* one-pole input samples
FilterInputs == {0 - FiltScale, 0, 3, FiltScale}
\* first samples of a state-variable response: the unit impulse and -0.5
SvfInputs == {SvfScale, 0 - (SvfScale \div 2)}
\* process() is followed for this many samples of a response, and while
\* every state value is within SvfLimit
MaxSvfRun == 40
SvfLimit == 200 * SvfScale
\* the magnitude a bounded impulse response stays below
SvfBound == 100 * SvfScale
\* Biquad: arguments of setLowPass/setHighPass/setBandPass (Hz) and of
\* setCoefficients (b0, b1, b2, a1, a2), input samples, samples followed
BiquadCutoffs == {1000, 5000}
BiquadCoefArgs == {<<CoefScale \div 2, CoefScale \div 4, 0, 0 - (CoefScale \div 2), CoefScale \div 4>>}
BiquadInputs == {0, SvfScale}
MaxBqRun == 5
\* DCBlocker: pole, input samples, samples followed
POLE == (995 * CoefScale) \div 1000     \* 0.995f
DcInputs == {0, SvfScale, 0 - (SvfScale \div 2)}
MaxDcRun == 6
\* Wavetables: grids of the generator values and of the fractional index,
\* table sizes, the values a generator (or input array) yields, the width
\* of the unsigned index type, the fractional indices looked up
GenScale == 4
IdxScale == 2
TableSizes == {3, 4}
GenValues == {0 - 2 * GenScale, 0 - GenScale, 0 - 1, 3, GenScale + 1}
IndexBits == 4
INT16_WRAP == 65536
FracIndexes(size) == (0 - 2 * size * IdxScale) .. (3 * size * IdxScale)
\* LFO: the frequency range of setFrequency and the default frequency (in
\* 0.001 Hz), the build-time KOEKIT_SAMPLE_RATE of an instance and the
\* arguments of setSampleRate, the phase grid (1000 steps per Hz of the
\* highest rate), arguments of setFrequency and of setWaveform, bits of a
\* held value, calls
\* followed
LFO_FREQ_MIN == 1
LFO_FREQ_MAX == 100000
LFO_FREQ_DEFAULT == 1000
LfoRates == {200, 400}
LfoPhaseScale == 1000 * 400
LfoFreqArgs == {0 - 5, 150000}
WaveformArgs == {"SQUARE", "SAMPLE_HOLD", "NOISE"}
HoldBits == 4
MaxLfoCalls == 4
\* the filter classes
FilterKinds == {"OnePole", "StateVariable", "Biquad", "DCBlocker"}

VARIABLES
    \* AudioEngine
    initialized_, output_, user_callback_,
    \* PWMAudioOutput
    output_pin_, sample_rate_, callback_, timer_active_, timer_period_us_,
    \* hardware: number of pending one-shot alarms, last analogWrite
    alarms, pwm,
    \* foreground position: label, return stack, arguments of the call
    pc, stack, argRate, argPin, armOk,
    \* observation of the calls and of the last timer firing
    lastCall, beganWhileActive, beginRet, firedSinceRet, isr,
    \* sample mapping harness
    mIn, mOut, mPrev,
    \* envelope instance: which class it is, and its members
    envKind, stage_, level_, target_, increment_,
    attack_time_, decay_time_, sustain_level_, release_time_, env_sample_rate_,
    attack_inc_, decay_inc_, release_inc_,
    \* observation of the envelope: the last operation called, whether
    \* updateIncrements has run, and the process() calls counted since a
    \* noteOn() from Idle or a noteOff() in Sustain
    lastOp, configured, run,
    \* oscillator instance: PhaseAccumulator members, table reference,
    \* amplitude
    phase_, phase_increment_, osc_sample_rate_, wavetable_, amplitude_,
    \* observation of the oscillator: the last operation called, the
    \* argument of a setAmplitude call, the value last returned, and the
    \* process() calls counted since the phase was zeroed, and the
    \* iterations of the wrap loops in the last process() call
    oscOp, oscArg, oscRet, oscRun, oscLoops,
    \* noise source: xorshift state, and the last operation, the seed it was
    \* given, the value process() returned and the process() calls so far;
    \* twin_state_ is the state of a second source that is given the seed 1
    \* whenever the first is seeded, and the same process() calls
    state_, noiseOp, noiseSeed, noiseRet, noiseCalls, twin_state_,
    \* one-pole filter: members, then the last operation, its input, the
    \* value it returned and the state it started from
    y1_, a0_, b1_, op_sample_rate_, op_cutoff_,
    opOp, opIn, opRet, opPrev,
    \* state-variable filter: members, then the last operation and the
    \* samples processed since reset()
    low_, band_, high_, f_, q_, svf_sample_rate_, svf_cutoff_, resonance_,
    svfOp, svfRun,
    \* biquad filter: history, coefficients (one record b0, b1, b2, a1, a2),
    \* sample rate, then the last operation, the value process() returned and
    \* the samples processed since reset()
    bq_x1_, bq_x2_, bq_y1_, bq_y2_, bq_coef_, bq_sample_rate_,
    bqOp, bqRet, bqRun,
    \* DC blocker: history, then the last operation, the value process()
    \* returned and the samples processed since reset()
    dc_x1_, dc_y1_, dcOp, dcRet, dcRun,
    \* for each filter, the history (and last output) of a second instance
    \* that was constructed when the first was last reset (or constructed),
    \* holds the same coefficients and is given the same process() calls
    op_fresh_, svf_fresh_, bq_fresh_, dc_fresh_,
    \* which filter class the instance under test is
    filterKind,
    \* wavetable: the values of the generator (or input array) by index, the
    \* stored samples (empty until built), then the last operation, its
    \* argument and the value it returned
    gen_, tbl_, tblOp, tblArg, tblRet,
    \* LFO: members, then the last operation, whether the phase is at the
    \* start of a cycle (no process() call yet, or the last one wrapped the
    \* phase), whether every process() call so far ran in SAMPLE_HOLD mode
    \* at the constructed sample rate, and the process() calls so far
    lfo_phase_, frequency_, waveform_, lfo_sample_rate_, hold_value_, noise_state_,
    lfoOp, lfoCrossed, lfoScope, lfoCalls

engineVars == <<initialized_, output_, user_callback_>>
outputVars == <<output_pin_, sample_rate_, callback_, timer_active_, timer_period_us_>>
hwVars == <<alarms, pwm>>
fgVars == <<pc, stack, argRate, argPin, armOk>>
obsVars == <<lastCall, beganWhileActive, beginRet, firedSinceRet, isr>>
pipeVars == <<engineVars, outputVars, hwVars, fgVars, obsVars>>
mapVars == <<mIn, mOut, mPrev>>
envState == <<stage_, level_, target_, increment_>>
envParams == <<attack_time_, decay_time_, sustain_level_, release_time_, env_sample_rate_>>
envIncs == <<attack_inc_, decay_inc_, release_inc_>>
envObs == <<lastOp, configured, run>>
envVars == <<envKind, envState, envParams, envIncs, envObs>>
accVars == <<phase_, phase_increment_, osc_sample_rate_>>
oscObs == <<oscOp, oscArg, oscRet, oscRun, oscLoops>>
oscVars == <<accVars, wavetable_, amplitude_, oscObs>>
noiseVars == <<state_, noiseOp, noiseSeed, noiseRet, noiseCalls, twin_state_>>
onePoleVars == <<y1_, a0_, b1_, op_sample_rate_, op_cutoff_, opOp, opIn, opRet, opPrev>>
svfVars == <<low_, band_, high_, f_, q_, svf_sample_rate_, svf_cutoff_, resonance_,
             svfOp, svfRun>>
biquadVars == <<bq_x1_, bq_x2_, bq_y1_, bq_y2_, bq_coef_, bq_sample_rate_,
                bqOp, bqRet, bqRun>>
dcVars == <<dc_x1_, dc_y1_, dcOp, dcRet, dcRun>>
freshVars == <<op_fresh_, svf_fresh_, bq_fresh_, dc_fresh_>>
filterVars == <<onePoleVars, svfVars, biquadVars, dcVars, freshVars, filterKind>>
tableVars == <<gen_, tbl_, tblOp, tblArg, tblRet>>
lfoVars == <<lfo_phase_, frequency_, waveform_, lfo_sample_rate_, hold_value_, noise_state_,
             lfoOp, lfoCrossed, lfoScope, lfoCalls>>
extraVars == <<tableVars, lfoVars>>
dspVars == <<oscVars, noiseVars, filterVars, extraVars>>

\* ------------------------------------------------------------------------
\* Sample to PWM code
\* ------------------------------------------------------------------------
Clamp(v, lo, hi) == IF v < lo THEN lo ELSE IF hi < v THEN hi ELSE v

\* mutant: the input clamp is missing
sampleToPWM_noclamp(sample, ub) ==
    LET raw == IF sample = NaN
               THEN ub
               ELSE ((sample + SampleScale) * PWM_MAX_VALUE) \div (2 * SampleScale)
        pwm_value == raw % (UINT16_MAX + 1)
    IN  IF pwm_value < 0 THEN 0 ELSE IF PWM_MAX_VALUE < pwm_value THEN PWM_MAX_VALUE ELSE pwm_value

\* PWMAudioOutput::sampleToPWM; ub is the outcome of the float-to-uint16_t
\* conversion when the sample is NaN (std::clamp leaves NaN unchanged)
sampleToPWM(sample, ub) ==
    LET raw == IF sample = NaN
               THEN ub
               ELSE LET clamped == Clamp(sample, 0 - SampleScale, SampleScale)
                    IN  ((clamped + SampleScale) * PWM_MAX_VALUE) \div (2 * SampleScale)
        pwm_value == raw % (UINT16_MAX + 1)
    IN  Clamp(pwm_value, 0, PWM_MAX_VALUE)

\* ------------------------------------------------------------------------
\* Hardware timer collaborators
\* ------------------------------------------------------------------------
\* mutant: the cancel request names another alarm and cancels nothing
cancel_alarm_other(a) == a

\* cancel_alarm(AUDIO_ALARM_NUM): no alarm is pending afterwards
cancel_alarm(a) == 0

\* alarm_in_us(period, timerISR): one more pending alarm when it succeeds
alarm_in_us(a, ok) == IF ok THEN a + 1 ELSE a

\* AudioEngine::isActive
isActive == initialized_ /\ output_ /\ timer_active_

\* nothing has been written to the output yet
NoWrite == [pin |-> NO_PIN, code |-> 0 - 1]

\* no timer firing has been observed yet
NoFiring == [fired |-> FALSE, at |-> "idle", active |-> FALSE, user |-> NULL,
             invoked |-> <<>>, ret |-> 0, codes |-> <<>>, refused |-> FALSE]

\* values of the variables the pipeline does not use
nonPipeVars == <<mapVars, envVars, dspVars>>

\* return from the current function to the label on top of the stack
Return ==
    /\ pc' = Head(stack)
    /\ stack' = Tail(stack)

\* a top-level call has returned to the application
Returned == pc' = "idle" => firedSinceRet' = FALSE

\* ------------------------------------------------------------------------
\* Foreground: the application calls begin / setAudioCallback / end
\* ------------------------------------------------------------------------
\* KoeKit::begin(sample_rate, output_pin)
CallBegin(rate, pin) ==
    /\ pc = "idle"
    /\ pc' = "AE_begin"
    /\ stack' = <<>>
    /\ argRate' = rate
    /\ argPin' = pin
    /\ lastCall' = "begin"
    /\ beganWhileActive' = isActive
    /\ beginRet' = NONE
    /\ UNCHANGED <<engineVars, outputVars, hwVars, armOk, firedSinceRet, isr>>
    /\ UNCHANGED nonPipeVars

\* KoeKit::setAudioCallback(callback) -> AudioEngine::setCallback
setAudioCallback(cb) ==
    /\ pc = "idle"
    /\ user_callback_' = cb
    /\ lastCall' = "setAudioCallback"
    /\ firedSinceRet' = FALSE
    /\ UNCHANGED <<initialized_, output_, outputVars, hwVars, fgVars, beganWhileActive,
                   beginRet, isr>>
    /\ UNCHANGED nonPipeVars

\* KoeKit::end()
CallEnd ==
    /\ pc = "idle"
    /\ pc' = "AE_end"
    /\ stack' = <<"idle">>
    /\ lastCall' = "end"
    /\ beginRet' = NONE
    /\ UNCHANGED <<engineVars, outputVars, hwVars, argRate, argPin, armOk,
                   beganWhileActive, firedSinceRet, isr>>
    /\ UNCHANGED nonPipeVars

\* AudioEngine::begin: if (initialized_) end();
AE_begin ==
    /\ pc = "AE_begin"
    /\ IF initialized_
       THEN pc' = "AE_end" /\ stack' = <<"AE_begin_1">> \o stack
       ELSE pc' = "AE_begin_1" /\ stack' = stack
    /\ UNCHANGED <<engineVars, outputVars, hwVars, argRate, argPin, armOk, obsVars>>
    /\ UNCHANGED nonPipeVars

\* AudioEngine::begin: output_ = &PWMAudioOutput::getInstance(); output_->begin(...)
AE_begin_1 ==
    /\ pc = "AE_begin_1"
    /\ output_' = TRUE
    /\ pc' = "PWM_begin"
    /\ UNCHANGED <<initialized_, user_callback_, outputVars, hwVars, stack,
                   argRate, argPin, armOk, obsVars>>
    /\ UNCHANGED nonPipeVars

\* PWMAudioOutput::begin: if (timer_active_) end();
PWM_begin ==
    /\ pc = "PWM_begin"
    /\ IF timer_active_
       THEN pc' = "PWM_end" /\ stack' = <<"PWM_begin_1">> \o stack
       ELSE pc' = "PWM_begin_1" /\ stack' = stack
    /\ UNCHANGED <<engineVars, outputVars, hwVars, argRate, argPin, armOk, obsVars>>
    /\ UNCHANGED nonPipeVars

\* PWMAudioOutput::begin: store pin and rate, compute the period, set up the pin
PWM_begin_1 ==
    /\ pc = "PWM_begin_1"
    /\ output_pin_' = argPin
    /\ sample_rate_' = argRate
    /\ timer_period_us_' = 1000000 \div argRate
    /\ pc' = "PWM_begin_2"
    /\ UNCHANGED <<engineVars, callback_, timer_active_, hwVars, stack,
                   argRate, argPin, armOk, obsVars>>
    /\ UNCHANGED nonPipeVars

\* PWMAudioOutput::begin: analogWrite(output_pin_, PWM_CENTER)
PWM_begin_2 ==
    /\ pc = "PWM_begin_2"
    /\ pwm' = [pin |-> output_pin_, code |-> PWM_CENTER]
    /\ pc' = "setupTimer"
    /\ UNCHANGED <<engineVars, outputVars, alarms, stack, argRate, argPin, armOk, obsVars>>
    /\ UNCHANGED nonPipeVars

\* PWMAudioOutput::setupTimer: cancel_alarm(AUDIO_ALARM_NUM)
setupTimer ==
    /\ pc = "setupTimer"
    /\ alarms' = cancel_alarm(alarms)
    /\ pc' = "setupTimer_1"
    /\ UNCHANGED <<engineVars, outputVars, pwm, stack, argRate, argPin, armOk, obsVars>>
    /\ UNCHANGED nonPipeVars

\* PWMAudioOutput::setupTimer: return alarm_in_us(period_us, timerISR)
setupTimer_1 ==
    /\ pc = "setupTimer_1"
    /\ \E ok \in BOOLEAN :
          /\ alarms' = alarm_in_us(alarms, ok)
          /\ armOk' = ok
    /\ pc' = "PWM_begin_3"
    /\ UNCHANGED <<engineVars, outputVars, pwm, stack, argRate, argPin, obsVars>>
    /\ UNCHANGED nonPipeVars

\* mutant: timer_active_ is set before the result of setupTimer is looked at
PWM_begin_fail_active ==
    /\ pc = "PWM_begin_3"
    /\ ~armOk
    /\ pc' = "idle"
    /\ timer_active_' = TRUE
    /\ beginRet' = "false"
    /\ firedSinceRet' = FALSE
    /\ UNCHANGED <<engineVars, output_pin_, sample_rate_, callback_, timer_period_us_,
                   hwVars, stack, argRate, argPin, armOk, lastCall, beganWhileActive, isr>>
    /\ UNCHANGED nonPipeVars

\* PWMAudioOutput::begin: if (!setupTimer()) return false; and
\* AudioEngine::begin: if (!output_->begin(...)) return false;
PWM_begin_fail ==
    /\ pc = "PWM_begin_3"
    /\ ~armOk
    /\ pc' = "idle"
    /\ beginRet' = "false"
    /\ firedSinceRet' = FALSE
    /\ UNCHANGED <<engineVars, outputVars, hwVars, stack, argRate, argPin, armOk,
                   lastCall, beganWhileActive, isr>>
    /\ UNCHANGED nonPipeVars

\* PWMAudioOutput::begin: timer_active_ = true; return true;
PWM_begin_3 ==
    /\ pc = "PWM_begin_3"
    /\ armOk
    /\ timer_active_' = TRUE
    /\ pc' = "AE_begin_2"
    /\ UNCHANGED <<engineVars, output_pin_, sample_rate_, callback_, timer_period_us_,
                   hwVars, stack, argRate, argPin, armOk, obsVars>>
    /\ UNCHANGED nonPipeVars

\* AudioEngine::begin: output_->setCallback([this]() { return audioCallback(); })
AE_begin_2 ==
    /\ pc = "AE_begin_2"
    /\ callback_' = "wrapper"
    /\ pc' = "AE_begin_3"
    /\ UNCHANGED <<engineVars, output_pin_, sample_rate_, timer_active_, timer_period_us_,
                   hwVars, stack, argRate, argPin, armOk, obsVars>>
    /\ UNCHANGED nonPipeVars

\* AudioEngine::begin: initialized_ = true; return true;
AE_begin_3 ==
    /\ pc = "AE_begin_3"
    /\ initialized_' = TRUE
    /\ pc' = "idle"
    /\ beginRet' = "true"
    /\ firedSinceRet' = FALSE
    /\ UNCHANGED <<output_, user_callback_, outputVars, hwVars, stack, argRate, argPin,
                   armOk, lastCall, beganWhileActive, isr>>
    /\ UNCHANGED nonPipeVars

\* AudioEngine::end: if (output_) output_->end();
AE_end ==
    /\ pc = "AE_end"
    /\ IF output_
       THEN pc' = "PWM_end" /\ stack' = <<"AE_end_1">> \o stack
       ELSE pc' = "AE_end_1" /\ stack' = stack
    /\ UNCHANGED <<engineVars, outputVars, hwVars, argRate, argPin, armOk, obsVars>>
    /\ UNCHANGED nonPipeVars

\* PWMAudioOutput::end: if (timer_active_) { stopTimer(); ...
PWM_end ==
    /\ pc = "PWM_end"
    /\ pc' = IF timer_active_ THEN "stopTimer" ELSE "PWM_end_2"
    /\ UNCHANGED <<engineVars, outputVars, hwVars, stack, argRate, argPin, armOk, obsVars>>
    /\ UNCHANGED nonPipeVars

\* mutant: stopTimer leaves the alarm armed
stopTimer_armed ==
    /\ pc = "stopTimer"
    /\ pc' = "PWM_end_1"
    /\ UNCHANGED <<engineVars, outputVars, hwVars, stack, argRate, argPin, armOk, obsVars>>
    /\ UNCHANGED nonPipeVars

\* PWMAudioOutput::stopTimer: cancel_alarm(AUDIO_ALARM_NUM)
stopTimer ==
    /\ pc = "stopTimer"
    /\ alarms' = cancel_alarm(alarms)
    /\ pc' = "PWM_end_1"
    /\ UNCHANGED <<engineVars, outputVars, pwm, stack, argRate, argPin, armOk, obsVars>>
    /\ UNCHANGED nonPipeVars

\* PWMAudioOutput::end: ... timer_active_ = false; }
PWM_end_1 ==
    /\ pc = "PWM_end_1"
    /\ timer_active_' = FALSE
    /\ pc' = "PWM_end_2"
    /\ UNCHANGED <<engineVars, output_pin_, sample_rate_, callback_, timer_period_us_,
                   hwVars, stack, argRate, argPin, armOk, obsVars>>
    /\ UNCHANGED nonPipeVars

\* PWMAudioOutput::end: if (output_pin_ != 255) analogWrite(output_pin_, PWM_CENTER)
PWM_end_2 ==
    /\ pc = "PWM_end_2"
    /\ pwm' = IF output_pin_ # NO_PIN
              THEN [pin |-> output_pin_, code |-> PWM_CENTER]
              ELSE pwm
    /\ pc' = "PWM_end_3"
    /\ UNCHANGED <<engineVars, outputVars, alarms, stack, argRate, argPin, armOk, obsVars>>
    /\ UNCHANGED nonPipeVars

\* PWMAudioOutput::end: callback_ = nullptr; return
PWM_end_3 ==
    /\ pc = "PWM_end_3"
    /\ callback_' = NULL
    /\ Return
    /\ UNCHANGED <<engineVars, output_pin_, sample_rate_, timer_active_, timer_period_us_,
                   hwVars, argRate, argPin, armOk, obsVars>>
    /\ UNCHANGED nonPipeVars

\* AudioEngine::end: user_callback_ = nullptr
AE_end_1 ==
    /\ pc = "AE_end_1"
    /\ user_callback_' = NULL
    /\ pc' = "AE_end_2"
    /\ UNCHANGED <<initialized_, output_, outputVars, hwVars, stack, argRate, argPin,
                   armOk, obsVars>>
    /\ UNCHANGED nonPipeVars

\* AudioEngine::end: initialized_ = false; return
AE_end_2 ==
    /\ pc = "AE_end_2"
    /\ initialized_' = FALSE
    /\ Return
    /\ Returned
    /\ pc' # "idle" => firedSinceRet' = firedSinceRet
    /\ UNCHANGED <<output_, user_callback_, outputVars, hwVars, argRate, argPin, armOk,
                   lastCall, beganWhileActive, beginRet, isr>>
    /\ UNCHANGED nonPipeVars

\* ------------------------------------------------------------------------
\* Timer interrupt
\* ------------------------------------------------------------------------
\* mutant: the wrapper drops the value the user callback returned
audioCallback_silent(r) == 0

\* AudioEngine::audioCallback; r is the value the user callback returns
audioCallback(r) == IF user_callback_ # NULL THEN r ELSE 0

\* the user callbacks AudioEngine::audioCallback invokes
audioCallbackInvokes == IF user_callback_ # NULL THEN <<user_callback_>> ELSE <<>>

\* PWMAudioOutput::handleTimerInterrupt: sample = callback_ ? callback_() : 0.0f
handleSample(r) == IF callback_ # NULL THEN audioCallback(r) ELSE 0

\* PWMAudioOutput::timerISR -> handleTimerInterrupt: a pending alarm fires,
\* the sample is produced and written, and the next alarm is requested
timerISR ==
    /\ alarms > 0
    /\ \E r \in CallbackSamples, ub \in CastOutcomes, ok \in BOOLEAN :
          LET called == callback_ # NULL /\ user_callback_ # NULL
              sample == handleSample(r)
              code == sampleToPWM(sample, ub)
          IN  /\ ~called => r = 0
              /\ sample # NaN => ub = 0
              /\ ~timer_active_ => ok
              /\ pwm' = [pin |-> output_pin_, code |-> code]
              /\ alarms' = IF timer_active_
                           THEN alarm_in_us(alarms - 1, ok)
                           ELSE alarms - 1
              /\ isr' = [fired |-> TRUE, at |-> pc, active |-> isActive,
                         user |-> user_callback_,
                         invoked |-> IF callback_ # NULL THEN audioCallbackInvokes ELSE <<>>,
                         ret |-> r, codes |-> <<code>>,
                         refused |-> timer_active_ /\ ~ok]
    /\ firedSinceRet' = TRUE
    /\ UNCHANGED <<engineVars, outputVars, fgVars, lastCall, beganWhileActive, beginRet>>
    /\ UNCHANGED nonPipeVars

\* ------------------------------------------------------------------------
\* Envelopes (core/envelope.h)
\* ------------------------------------------------------------------------
Max(a, b) == IF a < b THEN b ELSE a

\* no process() calls are being counted
NoRun == [kind |-> NONE, n |-> 0, need |-> 0]

\* seconds * sample_rate, rounded up to whole process() calls
StepsFor(time, rate) == (time * rate + 999) \div 1000

\* float arithmetic on the level grid: NaN propagates through + and -, and
\* every comparison with NaN is false
FAdd(a, b) == IF a = NaN \/ b = NaN THEN NaN ELSE Max(LevelFloor, a + b)
FNeg(a) == IF a = NaN THEN NaN ELSE 0 - a
FLe(a, b) == a # NaN /\ b # NaN /\ a <= b
FGe(a, b) == a # NaN /\ b # NaN /\ a >= b

\* x / (time_seconds * sample_rate) on the level grid
PerSample(x, time, rate) == IF x = NaN THEN NaN ELSE (x * 1000) \div (time * rate)

\* std::clamp(v, lo, hi): for NaN both comparisons are false and v comes
\* back, but NaN is outside std::clamp's preconditions, so any of the three
\* values can result
ClampOutcomes(v, lo, hi) == IF v = NaN THEN {NaN, lo, hi} ELSE {Clamp(v, lo, hi)}

nonEnvVars == <<pipeVars, mapVars, dspVars>>

\* ADSR::isActive / AR::isActive
env_isActive == stage_ # "IDLE"

\* ADSR::updateIncrements for the parameters a, d, s, r and the rate sr
updateIncrements(a, d, s, r, sr) ==
    [attack_inc |-> PerSample(LevelScale, a, sr),
     decay_inc |-> PerSample(FAdd(LevelScale, FNeg(s)), d, sr),
     release_inc |-> PerSample(s, r, sr)]

\* AR::updateIncrements
AR_updateIncrements(a, r, sr) ==
    [attack_inc |-> PerSample(LevelScale, a, sr),
     decay_inc |-> 0,
     release_inc |-> PerSample(LevelScale, r, sr)]

\* ADSR::setADSR(attack, decay, sustain, release)
setADSR(attack, decay, sustain, release) ==
    \E s \in ClampOutcomes(sustain, 0, LevelScale) :
    LET a == Max(MIN_TIME, attack)
        d == Max(MIN_TIME, decay)
        r == Max(MIN_TIME, release)
        inc == updateIncrements(a, d, s, r, env_sample_rate_)
    IN  /\ envKind = "ADSR"
        /\ attack_time_' = a
        /\ decay_time_' = d
        /\ sustain_level_' = s
        /\ release_time_' = r
        /\ attack_inc_' = inc.attack_inc
        /\ decay_inc_' = inc.decay_inc
        /\ release_inc_' = inc.release_inc
        /\ lastOp' = "set"
        /\ configured' = TRUE
        /\ run' = NoRun
        /\ UNCHANGED <<envKind, envState, env_sample_rate_>>
        /\ UNCHANGED nonEnvVars

\* ADSR::setAttack / setDecay / setSustain / setRelease: setADSR with the other
\* three parameters as they are
setAttack(attack) ==
    /\ envKind = "ADSR"
    /\ setADSR(attack, decay_time_, sustain_level_, release_time_)

setDecay(decay) ==
    /\ envKind = "ADSR"
    /\ setADSR(attack_time_, decay, sustain_level_, release_time_)

setSustain(sustain) ==
    /\ envKind = "ADSR"
    /\ setADSR(attack_time_, decay_time_, sustain, release_time_)

setRelease(release) ==
    /\ envKind = "ADSR"
    /\ setADSR(attack_time_, decay_time_, sustain_level_, release)

\* ADSR::setSampleRate
setSampleRate(sr) ==
    LET inc == updateIncrements(attack_time_, decay_time_, sustain_level_,
                                release_time_, sr)
    IN  /\ envKind = "ADSR"
        /\ env_sample_rate_' = sr
        /\ attack_inc_' = inc.attack_inc
        /\ decay_inc_' = inc.decay_inc
        /\ release_inc_' = inc.release_inc
        /\ lastOp' = "set"
        /\ configured' = TRUE
        /\ run' = NoRun
        /\ UNCHANGED <<envKind, envState, attack_time_, decay_time_, sustain_level_,
                       release_time_>>
        /\ UNCHANGED nonEnvVars

\* ADSR::noteOn
noteOn ==
    /\ envKind = "ADSR"
    /\ stage_' = "ATTACK"
    /\ target_' = LevelScale
    /\ increment_' = attack_inc_
    /\ lastOp' = "noteOn"
    /\ run' = IF stage_ = "IDLE" /\ configured
              THEN [kind |-> "attack", n |-> 0,
                    need |-> StepsFor(attack_time_, env_sample_rate_)]
              ELSE NoRun
    /\ UNCHANGED <<envKind, level_, envParams, envIncs, configured>>
    /\ UNCHANGED nonEnvVars

\* mutant: noteOff starts the release from Idle too
noteOffStage_always(stage) == "RELEASE"

\* ADSR::noteOff: the stage after the call
noteOffStage(stage) == IF stage # "IDLE" THEN "RELEASE" ELSE stage

\* ADSR::noteOff
noteOff ==
    /\ envKind = "ADSR"
    /\ stage_' = noteOffStage(stage_)
    /\ target_' = IF stage_ # "IDLE" THEN 0 ELSE target_
    /\ increment_' = IF stage_ # "IDLE" THEN FNeg(release_inc_) ELSE increment_
    /\ lastOp' = "noteOff"
    /\ run' = IF stage_ = "SUSTAIN" /\ configured
              THEN [kind |-> "release", n |-> 0,
                    need |-> StepsFor(release_time_, env_sample_rate_)]
              ELSE NoRun
    /\ UNCHANGED <<envKind, level_, envParams, envIncs, configured>>
    /\ UNCHANGED nonEnvVars

\* ADSR::process: stage, level, target and increment after one call
processStep(stage, level, target, increment) ==
    LET next == FAdd(level, increment)
    IN  CASE stage = "IDLE" ->
            [stage |-> stage, level |-> 0, target |-> target, increment |-> increment]
      [] stage = "ATTACK" ->
            IF FGe(next, LevelScale)
            THEN [stage |-> "DECAY", level |-> LevelScale, target |-> sustain_level_,
                  increment |-> FNeg(decay_inc_)]
            ELSE [stage |-> stage, level |-> next, target |-> target,
                  increment |-> increment]
      [] stage = "DECAY" ->
            IF FLe(next, sustain_level_)
            THEN [stage |-> "SUSTAIN", level |-> sustain_level_, target |-> target,
                  increment |-> 0]
            ELSE [stage |-> stage, level |-> next, target |-> target,
                  increment |-> increment]
      [] stage = "SUSTAIN" ->
            [stage |-> stage, level |-> sustain_level_, target |-> target,
             increment |-> increment]
      [] stage = "RELEASE" ->
            IF FLe(next, 0)
            THEN [stage |-> "IDLE", level |-> 0, target |-> target, increment |-> 0]
            ELSE [stage |-> stage, level |-> next, target |-> target,
                  increment |-> increment]

\* the process() calls counted so far, after one more call
RunAfterProcess ==
    IF run.kind # NONE /\ run.n < run.need
    THEN [run EXCEPT !.n = run.n + 1]
    ELSE NoRun

\* ADSR::process()
process ==
    /\ envKind = "ADSR"
    /\ LET e == processStep(stage_, level_, target_, increment_)
       IN  /\ stage_' = e.stage
           /\ level_' = e.level
           /\ target_' = e.target
           /\ increment_' = e.increment
    /\ lastOp' = "process"
    /\ run' = RunAfterProcess
    /\ UNCHANGED <<envKind, envParams, envIncs, configured>>
    /\ UNCHANGED nonEnvVars

\* ADSR::reset
reset ==
    /\ envKind = "ADSR"
    /\ stage_' = "IDLE"
    /\ level_' = 0
    /\ target_' = 0
    /\ increment_' = 0
    /\ lastOp' = "reset"
    /\ run' = NoRun
    /\ UNCHANGED <<envKind, envParams, envIncs, configured>>
    /\ UNCHANGED nonEnvVars

\* AR::setAR(attack, release)
setAR(attack, release) ==
    LET a == Max(MIN_TIME, attack)
        r == Max(MIN_TIME, release)
        inc == AR_updateIncrements(a, r, env_sample_rate_)
    IN  /\ envKind = "AR"
        /\ attack_time_' = a
        /\ release_time_' = r
        /\ attack_inc_' = inc.attack_inc
        /\ release_inc_' = inc.release_inc
        /\ lastOp' = "set"
        /\ configured' = TRUE
        /\ UNCHANGED <<envKind, envState, decay_time_, sustain_level_, env_sample_rate_,
                       decay_inc_, run>>
        /\ UNCHANGED nonEnvVars

\* AR::setSampleRate
AR_setSampleRate(sr) ==
    LET inc == AR_updateIncrements(attack_time_, release_time_, sr)
    IN  /\ envKind = "AR"
        /\ env_sample_rate_' = sr
        /\ attack_inc_' = inc.attack_inc
        /\ release_inc_' = inc.release_inc
        /\ lastOp' = "set"
        /\ configured' = TRUE
        /\ UNCHANGED <<envKind, envState, attack_time_, decay_time_, sustain_level_,
                       release_time_, decay_inc_, run>>
        /\ UNCHANGED nonEnvVars

\* mutant: trigger() restarts the level from 0
trigger_restart ==
    /\ envKind = "AR"
    /\ stage_' = "ATTACK"
    /\ level_' = 0
    /\ increment_' = attack_inc_
    /\ lastOp' = "trigger"
    /\ UNCHANGED <<envKind, target_, envParams, envIncs, configured, run>>
    /\ UNCHANGED nonEnvVars

\* AR::trigger
trigger ==
    /\ envKind = "AR"
    /\ stage_' = "ATTACK"
    /\ increment_' = attack_inc_
    /\ lastOp' = "trigger"
    /\ UNCHANGED <<envKind, level_, target_, envParams, envIncs, configured, run>>
    /\ UNCHANGED nonEnvVars

\* AR::process: stage, level and increment after one call
AR_processStep(stage, level, increment) ==
    CASE stage = "IDLE" ->
            [stage |-> stage, level |-> 0, increment |-> increment]
      [] stage = "ATTACK" ->
            IF level + increment >= LevelScale
            THEN [stage |-> "RELEASE", level |-> LevelScale,
                  increment |-> 0 - release_inc_]
            ELSE [stage |-> stage, level |-> level + increment, increment |-> increment]
      [] stage = "RELEASE" ->
            IF level + increment <= 0
            THEN [stage |-> "IDLE", level |-> 0, increment |-> 0]
            ELSE [stage |-> stage, level |-> level + increment, increment |-> increment]

\* AR::process()
AR_process ==
    /\ envKind = "AR"
    /\ LET e == AR_processStep(stage_, level_, increment_)
       IN  /\ stage_' = e.stage
           /\ level_' = e.level
           /\ increment_' = e.increment
    /\ lastOp' = "process"
    /\ UNCHANGED <<envKind, target_, envParams, envIncs, configured, run>>
    /\ UNCHANGED nonEnvVars

\* AR::reset
AR_reset ==
    /\ envKind = "AR"
    /\ stage_' = "IDLE"
    /\ level_' = 0
    /\ increment_' = 0
    /\ lastOp' = "reset"
    /\ UNCHANGED <<envKind, target_, envParams, envIncs, configured, run>>
    /\ UNCHANGED nonEnvVars

\* ------------------------------------------------------------------------
\* Phase accumulator and wavetable oscillator (core/oscillator.h)
\* ------------------------------------------------------------------------
Tables == {"SINE", "SQUARE"}

\* the samples of the basic tables for TABLE_SIZE = 4 (index 0 first)
TableSamples(t) ==
    IF t = "SINE"
    THEN <<0, SAMPLE_SCALE, 0, 0 - SAMPLE_SCALE>>
    ELSE <<SAMPLE_SCALE, SAMPLE_SCALE, 0 - SAMPLE_SCALE, 0 - SAMPLE_SCALE>>

\* no process() calls are being counted from phase 0
NoCount == 0 - 1

\* Wavetable::getInterpolated(phase * TABLE_SIZE), as a multiple of
\* 1 / (PhaseScale * SAMPLE_SCALE): the two wrap loops bring the index into
\* [0, TABLE_SIZE), then the neighbours are interpolated
getInterpolated(t, phase) ==
    LET index == (phase * TABLE_SIZE) % (TABLE_SIZE * PhaseScale)
        i1 == index \div PhaseScale
        i2 == (i1 + 1) % TABLE_SIZE
        frac == index % PhaseScale
        s1 == TableSamples(t)[i1 + 1]
        s2 == TableSamples(t)[i2 + 1]
    IN  s1 * PhaseScale + frac * (s2 - s1)

\* the sample for table t at phase, scaled by amplitude amp, as a multiple of
\* 1 / (PhaseScale * SAMPLE_SCALE * AmpScale)
OscOutput(t, phase, amp) ==
    IF amp = NaN THEN NaN ELSE getInterpolated(t, phase) * amp

\* PhaseAccumulator::tick: the stored phase after one call
tickPhase(phase, inc) ==
    IF phase + inc >= PhaseScale THEN phase + inc - PhaseScale ELSE phase + inc

\* the phase is near enough to 0 for tick() to be followed
InPhaseRange == phase_ >= 0 - MaxCycles * PhaseScale /\ phase_ <= MaxCycles * PhaseScale

\* the count of process() calls after an operation that leaves the phase alone
CountKept == IF oscRun = 0 THEN 0 ELSE NoCount

nonOscVars == <<pipeVars, mapVars, envVars, noiseVars, filterVars, extraVars>>

\* PhaseAccumulator::setFrequency, WavetableOscillator::setFrequency
Osc_setFrequency(frequency) ==
    /\ phase_increment_' = (frequency * PhaseScale) \div osc_sample_rate_
    /\ oscOp' = "setFrequency"
    /\ oscArg' = 0
    /\ oscLoops' = 0
    /\ oscRun' = CountKept
    /\ UNCHANGED <<phase_, osc_sample_rate_, wavetable_, amplitude_, oscRet>>
    /\ UNCHANGED nonOscVars

\* PhaseAccumulator::getCurrentFrequency, in Hz times PhaseScale
getCurrentFrequency == phase_increment_ * osc_sample_rate_

\* PhaseAccumulator::setSampleRate, WavetableOscillator::setSampleRate
Osc_setSampleRate(sample_rate) ==
    /\ osc_sample_rate_' = sample_rate
    /\ phase_increment_' = getCurrentFrequency \div sample_rate
    /\ oscOp' = "setSampleRate"
    /\ oscArg' = 0
    /\ oscLoops' = 0
    /\ oscRun' = CountKept
    /\ UNCHANGED <<phase_, wavetable_, amplitude_, oscRet>>
    /\ UNCHANGED nonOscVars

\* PhaseAccumulator::tick
tick ==
    /\ InPhaseRange
    /\ phase_' = tickPhase(phase_, phase_increment_)
    /\ oscRet' = phase_'
    /\ oscOp' = "tick"
    /\ oscArg' = 0
    /\ oscLoops' = 0
    /\ oscRun' = NoCount
    /\ UNCHANGED <<phase_increment_, osc_sample_rate_, wavetable_, amplitude_>>
    /\ UNCHANGED nonOscVars

\* PhaseAccumulator::setPhase, WavetableOscillator::setPhase: the two loops
\* bring the phase into [0,1)
Osc_setPhase(phase) ==
    /\ phase_' = phase % PhaseScale
    /\ oscOp' = "setPhase"
    /\ oscArg' = 0
    /\ oscLoops' = 0
    /\ oscRun' = NoCount
    /\ UNCHANGED <<phase_increment_, osc_sample_rate_, wavetable_, amplitude_, oscRet>>
    /\ UNCHANGED nonOscVars

\* WavetableOscillator::setAmplitude
Osc_setAmplitude(amplitude) ==
    /\ amplitude_' \in ClampOutcomes(amplitude, 0, AmpScale)
    /\ oscOp' = "setAmplitude"
    /\ oscArg' = amplitude
    /\ oscLoops' = 0
    /\ oscRun' = CountKept
    /\ UNCHANGED <<accVars, wavetable_, oscRet>>
    /\ UNCHANGED nonOscVars

\* WavetableOscillator::setWavetable
Osc_setWavetable(wavetable) ==
    /\ wavetable_' = wavetable
    /\ oscOp' = "setWavetable"
    /\ oscArg' = 0
    /\ oscLoops' = 0
    /\ oscRun' = CountKept
    /\ UNCHANGED <<accVars, amplitude_, oscRet>>
    /\ UNCHANGED nonOscVars

\* Wavetable::getInterpolated, iterations of the first wrap loop for index
RECURSIVE downLoops(_)
downLoops(index) ==
    IF index >= TABLE_SIZE * PhaseScale
    THEN 1 + downLoops(index - TABLE_SIZE * PhaseScale)
    ELSE 0

\* Wavetable::getInterpolated, iterations of the second wrap loop for index
RECURSIVE upLoops(_)
upLoops(index) ==
    IF index < 0 THEN 1 + upLoops(index + TABLE_SIZE * PhaseScale) ELSE 0

\* the iterations of both wrap loops for the index phase * TABLE_SIZE
wrapLoops(phase) == downLoops(phase * TABLE_SIZE) + upLoops(phase * TABLE_SIZE)

\* WavetableOscillator::process: tick, look the new phase up, scale
Osc_process ==
    /\ InPhaseRange
    /\ phase_' = tickPhase(phase_, phase_increment_)
    /\ oscRet' = OscOutput(wavetable_, phase_', amplitude_)
    /\ oscOp' = "process"
    /\ oscArg' = 0
    /\ oscLoops' = wrapLoops(phase_')
    /\ oscRun' = IF oscRun >= 0 /\ oscRun < MaxRun THEN oscRun + 1 ELSE NoCount
    /\ UNCHANGED <<phase_increment_, osc_sample_rate_, wavetable_, amplitude_>>
    /\ UNCHANGED nonOscVars

\* mutant: reset() restores the constructed state
Osc_reset_all ==
    /\ phase_' = 0
    /\ phase_increment_' = 0
    /\ amplitude_' = AmpScale
    /\ oscOp' = "reset"
    /\ oscArg' = 0
    /\ oscLoops' = 0
    /\ oscRun' = 0
    /\ UNCHANGED <<osc_sample_rate_, wavetable_, oscRet>>
    /\ UNCHANGED nonOscVars

\* PhaseAccumulator::reset, WavetableOscillator::reset
Osc_reset ==
    /\ phase_' = 0
    /\ oscOp' = "reset"
    /\ oscArg' = 0
    /\ oscLoops' = 0
    /\ oscRun' = 0
    /\ UNCHANGED <<phase_increment_, osc_sample_rate_, wavetable_, amplitude_, oscRet>>
    /\ UNCHANGED nonOscVars

\* an oscillator constructed on table t in a build whose KOEKIT_SAMPLE_RATE
\* is rate
OscConstructed(t, rate) ==
    /\ phase_ = 0
    /\ phase_increment_ = 0
    /\ osc_sample_rate_ = rate
    /\ wavetable_ = t
    /\ amplitude_ = AmpScale
    /\ oscOp = NONE
    /\ oscArg = 0
    /\ oscLoops = 0
    /\ oscRet = 0
    /\ oscRun = 0

\* the oscillator is not used by the other components
InitOscIdle == OscConstructed("SINE", 8)

\* ------------------------------------------------------------------------
\* Noise source (core/oscillator.h): the uint32_t state is a vector of 32
\* bits, bit 0 the least significant
\* ------------------------------------------------------------------------
Bit == 0 .. (WORD - 1)

\* bit i of the number n
RECURSIVE bitOf(_, _)
bitOf(n, i) == IF i = 0 THEN n % 2 ELSE bitOf(n \div 2, i - 1)

\* the 32-bit word of the number n, 0 <= n < 2^31
Word(n) == [i \in Bit |-> bitOf(n, i)]

Zero32 == Word(0)
One32 == Word(1)
\* UINT32_MAX
AllOnes32 == [i \in Bit |-> 1]

\* x ^ y
Xor(x, y) == [i \in Bit |-> (x[i] + y[i]) % 2]
\* x << n and x >> n on uint32_t: bits shifted out are lost
Shl(x, n) == [i \in Bit |-> IF i >= n THEN x[i - n] ELSE 0]
Shr(x, n) == [i \in Bit |-> IF i + n < WORD THEN x[i + n] ELSE 0]

\* NoiseGenerator::process: the state after one call
xorshift(x) ==
    LET a == Xor(x, Shl(x, 13))
        b == Xor(a, Shr(a, 17))
    IN  Xor(b, Shl(b, 5))

\* seeds given to the constructor and to reset(): 0, every power of two
\* (1 and 0x80000000 among them), 0x12345 and UINT32_MAX
Seeds == {Zero32, Word(74565), AllOnes32} \cup
         {[i \in Bit |-> IF i = k THEN 1 ELSE 0] : k \in Bit}

\* mutant: the seed is stored as given
seedState_raw(seed) == seed

\* NoiseGenerator::NoiseGenerator, NoiseGenerator::reset: the state for a seed
seedState(seed) == IF seed = Zero32 THEN One32 ELSE seed

nonNoiseVars == <<pipeVars, mapVars, envVars, oscVars, filterVars, extraVars>>

\* NoiseGenerator::reset(seed)
Noise_reset(seed) ==
    /\ state_' = seedState(seed)
    /\ twin_state_' = seedState(One32)
    /\ noiseOp' = "reset"
    /\ noiseSeed' = seed
    /\ noiseCalls' = 0
    /\ UNCHANGED noiseRet
    /\ UNCHANGED nonNoiseVars

\* NoiseGenerator::process: the returned float is computed from the new
\* state word and the amplitude (1.0f unless set); noiseRet is that word
Noise_process ==
    /\ noiseCalls < MaxNoiseCalls
    /\ state_' = xorshift(state_)
    /\ twin_state_' = xorshift(twin_state_)
    /\ noiseRet' = state_'
    /\ noiseOp' = "process"
    /\ noiseCalls' = noiseCalls + 1
    /\ UNCHANGED noiseSeed
    /\ UNCHANGED nonNoiseVars

\* NoiseGenerator(seed)
NoiseConstructed(seed) ==
    /\ state_ = seedState(seed)
    /\ twin_state_ = seedState(One32)
    /\ noiseOp = NONE
    /\ noiseSeed = seed
    /\ noiseRet = Zero32
    /\ noiseCalls = 0

\* the noise source is not used by the other components
InitNoiseIdle == NoiseConstructed(One32)

\* ------------------------------------------------------------------------
\* Filters (core/filter.h): coefficients are multiples of 1 / CoefScale,
\* one-pole samples multiples of 1 / FiltScale, state-variable samples
\* multiples of 1 / SvfScale; every product is rounded to the grid
\* ------------------------------------------------------------------------
Abs(x) == IF x < 0 THEN 0 - x ELSE x

\* n / d rounded to the nearest integer
Round(n, d) == IF n >= 0 THEN (2 * n + d) \div (2 * d) ELSE 0 - ((d - 2 * n) \div (2 * d))

\* coefficient * value
Mul(c, v) == Round(c * v, CoefScale)

\* 1 - exp(-2 pi cutoff / sample_rate) for the cutoffs the setter can store
alphaOf(cutoff, sample_rate) ==
    IF sample_rate = 22050
    THEN CASE cutoff = 1 -> 0 [] cutoff = 1000 -> 248 [] cutoff = 5000 -> 759
           [] cutoff = 10804 -> 954 [] cutoff = 21609 -> 998
    ELSE CASE cutoff = 1 -> 0 [] cutoff = 1000 -> 133 [] cutoff = 5000 -> 510
           [] cutoff = 10804 -> 785 [] cutoff = 21609 -> 954

\* OnePole::updateCoefficients
OnePole_updateCoefficients(cutoff, sample_rate) ==
    LET alpha == alphaOf(cutoff, sample_rate)
    IN  [a0 |-> alpha, b1 |-> CoefScale - alpha]

nonOnePoleVars == <<pipeVars, mapVars, envVars, oscVars, noiseVars, svfVars,
                    biquadVars, dcVars, svf_fresh_, bq_fresh_, dc_fresh_, filterKind, extraVars>>

\* OnePole::setCutoff
OnePole_setCutoff(cutoff) ==
    LET c == Clamp(cutoff, 1, (op_sample_rate_ * 49) \div 100)
        k == OnePole_updateCoefficients(c, op_sample_rate_)
    IN  /\ op_cutoff_' = c
        /\ a0_' = k.a0
        /\ b1_' = k.b1
        /\ opOp' = "setCutoff"
        /\ UNCHANGED <<y1_, op_sample_rate_, opIn, opRet, opPrev, op_fresh_>>
        /\ UNCHANGED nonOnePoleVars

\* OnePole::setSampleRate
OnePole_setSampleRate(sample_rate) ==
    LET k == OnePole_updateCoefficients(op_cutoff_, sample_rate)
    IN  /\ op_sample_rate_' = sample_rate
        /\ a0_' = k.a0
        /\ b1_' = k.b1
        /\ opOp' = "setSampleRate"
        /\ UNCHANGED <<y1_, op_cutoff_, opIn, opRet, opPrev, op_fresh_>>
        /\ UNCHANGED nonOnePoleVars

\* OnePole::processLPF: the stored and returned value for input from state y1
lowPass(y1, input) == Mul(a0_, input) + Mul(b1_, y1)

\* mutant: the high-pass output is taken against the previous low-pass value
highPass_stale(y1, input) == input - y1

\* OnePole::processHPF: the returned value for input from state y1
highPass(y1, input) == input - lowPass(y1, input)

\* OnePole::processLPF
processLPF(input) ==
    /\ y1_' = lowPass(y1_, input)
    /\ opRet' = y1_'
    /\ op_fresh_' = [y1 |-> lowPass(op_fresh_.y1, input), out |-> lowPass(op_fresh_.y1, input)]
    /\ opOp' = "processLPF"
    /\ opIn' = input
    /\ opPrev' = y1_
    /\ UNCHANGED <<a0_, b1_, op_sample_rate_, op_cutoff_>>
    /\ UNCHANGED nonOnePoleVars

\* mutant: the high-pass output is computed without storing the new
\* low-pass value
processHPF_pure(input) ==
    /\ opRet' = highPass(y1_, input)
    /\ opOp' = "processHPF"
    /\ opIn' = input
    /\ opPrev' = y1_
    /\ UNCHANGED <<y1_, op_fresh_, a0_, b1_, op_sample_rate_, op_cutoff_>>
    /\ UNCHANGED nonOnePoleVars

\* OnePole::processHPF
processHPF(input) ==
    /\ y1_' = lowPass(y1_, input)
    /\ opRet' = highPass(y1_, input)
    /\ op_fresh_' = [y1 |-> lowPass(op_fresh_.y1, input), out |-> highPass(op_fresh_.y1, input)]
    /\ opOp' = "processHPF"
    /\ opIn' = input
    /\ opPrev' = y1_
    /\ UNCHANGED <<a0_, b1_, op_sample_rate_, op_cutoff_>>
    /\ UNCHANGED nonOnePoleVars

\* the history of a OnePole as its member initialisers leave it, with the
\* last output (none yet)
OnePoleFresh == [y1 |-> 0, out |-> 0]

\* OnePole::reset
OnePole_reset ==
    /\ y1_' = 0
    /\ op_fresh_' = OnePoleFresh
    /\ opOp' = "reset"
    /\ UNCHANGED <<a0_, b1_, op_sample_rate_, op_cutoff_, opIn, opRet, opPrev>>
    /\ UNCHANGED nonOnePoleVars

\* a default-constructed OnePole in a build whose KOEKIT_SAMPLE_RATE is rate
OnePoleConstructed(rate) ==
    /\ y1_ = 0
    /\ a0_ = CoefScale
    /\ b1_ = 0
    /\ op_sample_rate_ = rate
    /\ op_cutoff_ = DEFAULT_CUTOFF
    /\ opOp = NONE
    /\ opIn = 0
    /\ opRet = 0
    /\ opPrev = 0
    /\ op_fresh_ = OnePoleFresh

\* the one-pole filter is not used by the other components
InitOnePoleIdle == OnePoleConstructed(22050)

\* 2 sin(pi cutoff / sample_rate) for the cutoffs the setter can store
sinCoef(cutoff, sample_rate) ==
    IF sample_rate = 22050
    THEN CASE cutoff = 1 -> 0 [] cutoff = 1000 -> 284 [] cutoff = 5000 -> 1307
           [] cutoff = 9922 -> 1975 [] cutoff = 19845 -> 618
    ELSE CASE cutoff = 1 -> 0 [] cutoff = 1000 -> 142 [] cutoff = 5000 -> 697
           [] cutoff = 9922 -> 1299 [] cutoff = 19845 -> 1975

\* StateVariable::updateCoefficients
SVF_updateCoefficients(cutoff, resonance, sample_rate) ==
    [f |-> Clamp(sinCoef(cutoff, sample_rate), 0, F_MAX),
     q |-> Clamp(Round(CoefScale * ResScale, resonance), Q_MIN, Q_MAX)]

nonSvfVars == <<pipeVars, mapVars, envVars, oscVars, noiseVars, onePoleVars,
                biquadVars, dcVars, op_fresh_, bq_fresh_, dc_fresh_, filterKind, extraVars>>

\* the impulse-response count after a parameter change: a change while the
\* filter is at rest keeps it, a change during the response ends it
SvfCountKept == IF svfRun = 0 THEN 0 ELSE NoCount

\* StateVariable::setParams
SVF_setParams(cutoff, resonance) ==
    LET c == Clamp(cutoff, 1, (svf_sample_rate_ * 45) \div 100)
        r == Clamp(resonance, RES_MIN, RES_MAX)
        k == SVF_updateCoefficients(c, r, svf_sample_rate_)
    IN  /\ svf_cutoff_' = c
        /\ resonance_' = r
        /\ f_' = k.f
        /\ q_' = k.q
        /\ svfOp' = "set"
        /\ svfRun' = SvfCountKept
        /\ UNCHANGED <<low_, band_, high_, svf_sample_rate_, svf_fresh_>>
        /\ UNCHANGED nonSvfVars

\* StateVariable::setCutoff
SVF_setCutoff(cutoff) == TRUE /\ SVF_setParams(cutoff, resonance_)

\* StateVariable::setResonance
SVF_setResonance(resonance) == TRUE /\ SVF_setParams(svf_cutoff_, resonance)

\* StateVariable::setSampleRate
SVF_setSampleRate(sample_rate) ==
    LET k == SVF_updateCoefficients(svf_cutoff_, resonance_, sample_rate)
    IN  /\ svf_sample_rate_' = sample_rate
        /\ f_' = k.f
        /\ q_' = k.q
        /\ svfOp' = "set"
        /\ svfRun' = SvfCountKept
        /\ UNCHANGED <<low_, band_, high_, svf_cutoff_, resonance_, svf_fresh_>>
        /\ UNCHANGED nonSvfVars

\* StateVariable::process: low, band and high after one call (values below
\* 1e-10 are below the grid and round to 0)
SVF_step(low, band, input) ==
    LET l == low + Mul(f_, band)
        h == input - l - Mul(q_, band)
        b == band + Mul(f_, h)
    IN  [low |-> l, band |-> b, high |-> h]

\* the filter state is small enough for process() to be followed
SvfInRange ==
    Abs(low_) <= SvfLimit /\ Abs(band_) <= SvfLimit /\ Abs(high_) <= SvfLimit

\* StateVariable::process(input): followed for the response to a first
\* sample after reset() and zero input from then on
SVF_process(input) ==
    /\ svfRun >= 0 /\ svfRun < MaxSvfRun
    /\ svfRun > 0 => input = 0
    /\ SvfInRange
    /\ LET s == SVF_step(low_, band_, input)
       IN  /\ low_' = s.low
           /\ band_' = s.band
           /\ high_' = s.high
    /\ svf_fresh_' = SVF_step(svf_fresh_.low, svf_fresh_.band, input)
    /\ svfOp' = "process"
    /\ svfRun' = svfRun + 1
    /\ UNCHANGED <<f_, q_, svf_sample_rate_, svf_cutoff_, resonance_>>
    /\ UNCHANGED nonSvfVars

\* the outputs of a StateVariable as its member initialisers leave them
SvfFresh == [low |-> 0, band |-> 0, high |-> 0]

\* StateVariable::reset
SVF_reset ==
    /\ low_' = 0
    /\ band_' = 0
    /\ high_' = 0
    /\ svf_fresh_' = SvfFresh
    /\ svfOp' = "reset"
    /\ svfRun' = 0
    /\ UNCHANGED <<f_, q_, svf_sample_rate_, svf_cutoff_, resonance_>>
    /\ UNCHANGED nonSvfVars

\* a default-constructed StateVariable in a build whose KOEKIT_SAMPLE_RATE
\* is rate
SvfConstructed(rate) ==
    /\ low_ = 0
    /\ band_ = 0
    /\ high_ = 0
    /\ f_ = 0
    /\ q_ = CoefScale
    /\ svf_sample_rate_ = rate
    /\ svf_cutoff_ = DEFAULT_CUTOFF
    /\ resonance_ = DEFAULT_RESONANCE
    /\ svfOp = NONE
    /\ svfRun = 0
    /\ svf_fresh_ = SvfFresh

\* the state-variable filter is not used by the other components
InitSvfIdle == SvfConstructed(22050)

\* ------------------------------------------------------------------------
\* Biquad and DCBlocker (core/filter.h): samples are multiples of
\* 1 / SvfScale, coefficients multiples of 1 / CoefScale
\* ------------------------------------------------------------------------
nonBiquadVars == <<pipeVars, mapVars, envVars, oscVars, noiseVars, onePoleVars, svfVars,
                   dcVars, op_fresh_, svf_fresh_, dc_fresh_, filterKind, extraVars>>

nonDcVars == <<pipeVars, mapVars, envVars, oscVars, noiseVars, onePoleVars, svfVars,
               biquadVars, op_fresh_, svf_fresh_, bq_fresh_, filterKind, extraVars>>

\* the coefficients of a Biquad as its member initialisers leave them
BiquadDefaultCoef == [b0 |-> CoefScale, b1 |-> 0, b2 |-> 0, a1 |-> 0, a2 |-> 0]

\* the coefficients setLowPass(cutoff) computes at sample_rate, for the
\* cutoffs in BiquadCutoffs
lowPassCoef(cutoff, sample_rate) ==
    IF sample_rate = 22050
    THEN IF cutoff = 1000
         THEN [b0 |-> 17, b1 |-> 34, b2 |-> 17, a1 |-> 0 - 1601, a2 |-> 668]
         ELSE [b0 |-> 251, b1 |-> 503, b2 |-> 251, a1 |-> 0 - 171, a2 |-> 177]
    ELSE IF cutoff = 1000
         THEN [b0 |-> 5, b1 |-> 9, b2 |-> 5, a1 |-> 0 - 1799, a2 |-> 818]
         ELSE [b0 |-> 83, b1 |-> 166, b2 |-> 83, a1 |-> 0 - 1035, a2 |-> 368]

\* the coefficients setHighPass(cutoff) computes at sample_rate
highPassCoef(cutoff, sample_rate) ==
    IF sample_rate = 22050
    THEN IF cutoff = 1000
         THEN [b0 |-> 817, b1 |-> 0 - 1635, b2 |-> 817, a1 |-> 0 - 1601, a2 |-> 668]
         ELSE [b0 |-> 337, b1 |-> 0 - 674, b2 |-> 337, a1 |-> 0 - 171, a2 |-> 177]
    ELSE IF cutoff = 1000
         THEN [b0 |-> 904, b1 |-> 0 - 1808, b2 |-> 904, a1 |-> 0 - 1799, a2 |-> 818]
         ELSE [b0 |-> 601, b1 |-> 0 - 1201, b2 |-> 601, a1 |-> 0 - 1035, a2 |-> 368]

\* the coefficients setBandPass(center, 1.0f) computes at sample_rate
bandPassCoef(center, sample_rate) ==
    IF sample_rate = 22050
    THEN IF center = 1000
         THEN [b0 |-> 92, b1 |-> 0, b2 |-> 0 - 92, a1 |-> 0 - 1744, a2 |-> 817]
         ELSE [b0 |-> 340, b1 |-> 0, b2 |-> 0 - 340, a1 |-> 0 - 192, a2 |-> 321]
    ELSE IF center = 1000
         THEN [b0 |-> 48, b1 |-> 0, b2 |-> 0 - 48, a1 |-> 0 - 1885, a2 |-> 904]
         ELSE [b0 |-> 202, b1 |-> 0, b2 |-> 0 - 202, a1 |-> 0 - 1208, a2 |-> 596]

\* the sample count after a coefficient change: a change while the filter is
\* at rest keeps it, a change during a response ends it
BqCountKept == IF bqRun = 0 THEN 0 ELSE NoCount

\* the assignments shared by the coefficient setters
Biquad_store(coef, op) ==
    /\ bq_coef_' = coef
    /\ bqOp' = op
    /\ bqRun' = BqCountKept
    /\ UNCHANGED <<bq_x1_, bq_x2_, bq_y1_, bq_y2_, bq_sample_rate_, bqRet, bq_fresh_>>
    /\ UNCHANGED nonBiquadVars

\* Biquad::setCoefficients
setCoefficients(b0, b1, b2, a1, a2) ==
    Biquad_store([b0 |-> b0, b1 |-> b1, b2 |-> b2, a1 |-> a1, a2 |-> a2], "setCoefficients")

\* Biquad::setLowPass
setLowPass(cutoff) == Biquad_store(lowPassCoef(cutoff, bq_sample_rate_), "setLowPass")

\* Biquad::setHighPass
setHighPass(cutoff) == Biquad_store(highPassCoef(cutoff, bq_sample_rate_), "setHighPass")

\* Biquad::setBandPass with bandwidth 1.0f
setBandPass(center) == Biquad_store(bandPassCoef(center, bq_sample_rate_), "setBandPass")

\* Biquad::setSampleRate
Biquad_setSampleRate(sample_rate) ==
    /\ bq_sample_rate_' = sample_rate
    /\ bqOp' = "setSampleRate"
    /\ UNCHANGED <<bq_x1_, bq_x2_, bq_y1_, bq_y2_, bq_coef_, bqRet, bqRun, bq_fresh_>>
    /\ UNCHANGED nonBiquadVars

\* Biquad::process: the output for input from the history h
Biquad_output(h, input) ==
    Mul(bq_coef_.b0, input) + Mul(bq_coef_.b1, h.x1) + Mul(bq_coef_.b2, h.x2)
        - Mul(bq_coef_.a1, h.y1) - Mul(bq_coef_.a2, h.y2)

\* Biquad::process: the history after the call, and the value returned
Biquad_step(h, input) ==
    LET output == Biquad_output(h, input)
    IN  [x1 |-> input, x2 |-> h.x1, y1 |-> output, y2 |-> h.y1, out |-> output]

\* Biquad::process(input): followed for MaxBqRun samples after reset()
Biquad_process(input) ==
    /\ bqRun >= 0 /\ bqRun < MaxBqRun
    /\ LET s == Biquad_step([x1 |-> bq_x1_, x2 |-> bq_x2_, y1 |-> bq_y1_, y2 |-> bq_y2_], input)
       IN  /\ bq_x1_' = s.x1
           /\ bq_x2_' = s.x2
           /\ bq_y1_' = s.y1
           /\ bq_y2_' = s.y2
           /\ bqRet' = s.out
    /\ bq_fresh_' = Biquad_step(bq_fresh_, input)
    /\ bqOp' = "process"
    /\ bqRun' = bqRun + 1
    /\ UNCHANGED <<bq_coef_, bq_sample_rate_>>
    /\ UNCHANGED nonBiquadVars

\* the history of a Biquad as its member initialisers leave it, with the
\* last output (none yet)
BiquadFresh == [x1 |-> 0, x2 |-> 0, y1 |-> 0, y2 |-> 0, out |-> 0]

\* mutant: the older output sample survives
Biquad_reset_y2 ==
    /\ bq_x1_' = 0
    /\ bq_x2_' = 0
    /\ bq_y1_' = 0
    /\ bq_fresh_' = BiquadFresh
    /\ bqOp' = "reset"
    /\ bqRun' = 0
    /\ UNCHANGED <<bq_y2_, bq_coef_, bq_sample_rate_, bqRet>>
    /\ UNCHANGED nonBiquadVars

\* Biquad::reset
Biquad_reset ==
    /\ bq_x1_' = 0
    /\ bq_x2_' = 0
    /\ bq_y1_' = 0
    /\ bq_y2_' = 0
    /\ bq_fresh_' = BiquadFresh
    /\ bqOp' = "reset"
    /\ bqRun' = 0
    /\ UNCHANGED <<bq_coef_, bq_sample_rate_, bqRet>>
    /\ UNCHANGED nonBiquadVars

\* a default-constructed Biquad in a build whose KOEKIT_SAMPLE_RATE is rate
BiquadConstructed(rate) ==
    /\ bq_x1_ = 0
    /\ bq_x2_ = 0
    /\ bq_y1_ = 0
    /\ bq_y2_ = 0
    /\ bq_coef_ = BiquadDefaultCoef
    /\ bq_sample_rate_ = rate
    /\ bqOp = NONE
    /\ bqRet = 0
    /\ bqRun = 0
    /\ bq_fresh_ = BiquadFresh

\* the biquad is not used by the other components
InitBiquadIdle == BiquadConstructed(22050)

\* DCBlocker::process: the history after the call, and the value returned
DC_step(h, input) ==
    LET output == input - h.x1 + Mul(POLE, h.y1)
    IN  [x1 |-> input, y1 |-> output, out |-> output]

\* DCBlocker::process(input): followed for MaxDcRun samples after reset()
DC_process(input) ==
    /\ dcRun < MaxDcRun
    /\ LET s == DC_step([x1 |-> dc_x1_, y1 |-> dc_y1_], input)
       IN  /\ dc_x1_' = s.x1
           /\ dc_y1_' = s.y1
           /\ dcRet' = s.out
    /\ dc_fresh_' = DC_step(dc_fresh_, input)
    /\ dcOp' = "process"
    /\ dcRun' = dcRun + 1
    /\ UNCHANGED nonDcVars

\* the history of a DCBlocker as its member initialisers leave it, with the
\* last output (none yet)
DcFresh == [x1 |-> 0, y1 |-> 0, out |-> 0]

\* DCBlocker::reset
DC_reset ==
    /\ dc_x1_' = 0
    /\ dc_y1_' = 0
    /\ dc_fresh_' = DcFresh
    /\ dcOp' = "reset"
    /\ dcRun' = 0
    /\ UNCHANGED dcRet
    /\ UNCHANGED nonDcVars

\* a default-constructed DCBlocker
DcConstructed ==
    /\ dc_x1_ = 0
    /\ dc_y1_ = 0
    /\ dcOp = NONE
    /\ dcRet = 0
    /\ dcRun = 0
    /\ dc_fresh_ = DcFresh

\* the DC blocker is not used by the other components
InitDcIdle == DcConstructed

\* ------------------------------------------------------------------------
\* Wavetables (core/wavetable_generator.h): a generator value v is the
\* integer v * GenScale, a fractional index x the integer x * IdxScale, an
\* interpolated value y the integer y * IdxScale * SAMPLE_SCALE
\* ------------------------------------------------------------------------
nonTableVars == <<pipeVars, mapVars, envVars, oscVars, noiseVars, filterVars, lfoVars>>

\* n / d with the quotient truncated toward zero (float to integer conversion)
TruncDiv(n, d) == IF n >= 0 THEN n \div d ELSE 0 - ((0 - n) \div d)

\* mutant: the generator value is scaled without being clamped and the
\* conversion wraps around in 16 bits
quantize_noclamp(value) ==
    LET scaled == TruncDiv(value * SAMPLE_SCALE, GenScale)
    IN  ((scaled + INT16_WRAP \div 2) % INT16_WRAP) - INT16_WRAP \div 2

\* makeWavetable, loop body: clamp to [-1,1], scale by SAMPLE_SCALE, convert
\* to WavetableSample
quantize(value) ==
    LET clamped == Clamp(value, 0 - GenScale, GenScale)
    IN  TruncDiv(clamped * SAMPLE_SCALE, GenScale)

\* makeWavetable, the loop over i = 0 .. SIZE-1
makeSamples(values) == [i \in 1..Len(values) |-> quantize(values[i])]

\* the assignments shared by the three table builders
Table_build(op) ==
    /\ tbl_ = <<>>
    /\ tbl_' = makeSamples(gen_)
    /\ tblOp' = op
    /\ UNCHANGED <<gen_, tblArg, tblRet>>
    /\ UNCHANGED nonTableVars

\* generateWavetable(std::function)
generateWavetable == Table_build("generateWavetable")

\* makeWavetable(Generator)
makeWavetable == Table_build("makeWavetable")

\* makeWavetable(const std::array<float, SIZE>&)
makeWavetableFromArray == Table_build("makeWavetableFromArray")

\* mutant: the index wraps at SIZE - 1
getSample_short(samples, index) == samples[(index % (Len(samples) - 1)) + 1]

\* Wavetable::getSample(index), index a value of the unsigned index type
getSample(samples, index) == samples[(index % Len(samples)) + 1]

\* Wavetable::getSample as a call on the built table
Table_getSample(index) ==
    /\ tbl_ # <<>>
    /\ tblRet' = getSample(tbl_, index)
    /\ tblArg' = index
    /\ tblOp' = "getSample"
    /\ UNCHANGED <<gen_, tbl_>>
    /\ UNCHANGED nonTableVars

\* Wavetable::getInterpolated, first loop: while (index >= SIZE) index -= SIZE
RECURSIVE wrapDown(_, _)
wrapDown(index, size) ==
    IF index >= size * IdxScale THEN wrapDown(index - size * IdxScale, size) ELSE index

\* Wavetable::getInterpolated, second loop: while (index < 0) index += SIZE
RECURSIVE wrapUp(_, _)
wrapUp(index, size) ==
    IF index < 0 THEN wrapUp(index + size * IdxScale, size) ELSE index

\* mutant: the second neighbour is not wrapped and is read as the last sample
interpolate_nowrap(samples, index) ==
    LET size == Len(samples)
        wrapped == wrapUp(wrapDown(index, size), size)
        i1 == wrapped \div IdxScale
        i2 == IF i1 + 1 < size THEN i1 + 1 ELSE i1
        frac == wrapped - i1 * IdxScale
        s1 == samples[i1 + 1]
        s2 == samples[i2 + 1]
    IN  s1 * IdxScale + frac * (s2 - s1)

\* Wavetable::getInterpolated(index) for a finite index
interpolate(samples, index) ==
    LET size == Len(samples)
        wrapped == wrapUp(wrapDown(index, size), size)
        i1 == wrapped \div IdxScale
        i2 == (i1 + 1) % size
        frac == wrapped - i1 * IdxScale
        s1 == samples[i1 + 1]
        s2 == samples[i2 + 1]
    IN  s1 * IdxScale + frac * (s2 - s1)

\* Wavetable::getInterpolated as a call on the built table
Table_getInterpolated(index) ==
    /\ tbl_ # <<>>
    /\ tblRet' = interpolate(tbl_, index)
    /\ tblArg' = index
    /\ tblOp' = "getInterpolated"
    /\ UNCHANGED <<gen_, tbl_>>
    /\ UNCHANGED nonTableVars

\* no table is built
InitTableIdle ==
    /\ gen_ = <<>>
    /\ tbl_ = <<>>
    /\ tblOp = NONE
    /\ tblArg = 0
    /\ tblRet = 0


\* ------------------------------------------------------------------------
\* LFO (core/envelope.h): frequencies are in units of 0.001 Hz, a phase p is
\* the integer p * LfoPhaseScale, a held value h the integer
\* h * (2^HoldBits - 1); the value process() returns is not modelled, only
\* the members it changes
\* ------------------------------------------------------------------------
nonLfoVars == <<pipeVars, mapVars, envVars, oscVars, noiseVars, filterVars, tableVars>>

Waveforms == {"SINE", "TRIANGLE", "SAWTOOTH", "SQUARE", "SAMPLE_HOLD", "NOISE"}

\* frequency_ / sample_rate_ on the phase grid
LfoIncrement(frequency, sample_rate) == frequency * (LfoPhaseScale \div (sample_rate * 1000))

\* (static_cast<float>(noise_state_) / UINT32_MAX) * 2.0f - 1.0f, from the
\* HoldBits most significant bits of the state
holdOf(state) ==
    LET RECURSIVE top(_)
        top(k) == IF k = 0 THEN 0 ELSE 2 * top(k - 1) + state[WORD - k]
    IN  2 * top(HoldBits) - (2^HoldBits - 1)

\* LFO::setFrequency
LFO_setFrequency(frequency) ==
    /\ frequency_' = Clamp(frequency, LFO_FREQ_MIN, LFO_FREQ_MAX)
    /\ lfoOp' = "setFrequency"
    /\ UNCHANGED <<lfo_phase_, waveform_, lfo_sample_rate_, hold_value_, noise_state_,
                   lfoCrossed, lfoScope, lfoCalls>>
    /\ UNCHANGED nonLfoVars

\* LFO::setWaveform
LFO_setWaveform(waveform) ==
    /\ waveform_' = waveform
    /\ lfoOp' = "setWaveform"
    /\ UNCHANGED <<lfo_phase_, frequency_, lfo_sample_rate_, hold_value_, noise_state_,
                   lfoCrossed, lfoScope, lfoCalls>>
    /\ UNCHANGED nonLfoVars

\* LFO::setSampleRate
LFO_setSampleRate(sample_rate) ==
    /\ lfo_sample_rate_' = sample_rate
    /\ lfoOp' = "setSampleRate"
    /\ lfoScope' = FALSE
    /\ UNCHANGED <<lfo_phase_, frequency_, waveform_, hold_value_, noise_state_,
                   lfoCrossed, lfoCalls>>
    /\ UNCHANGED nonLfoVars

\* LFO::process, SAMPLE_HOLD case: a new value is drawn
holdDraws(phase, frequency, sample_rate) == phase < LfoIncrement(frequency, sample_rate)

\* LFO::process, followed for MaxLfoCalls calls
LFO_process ==
    /\ lfoCalls < MaxLfoCalls
    /\ LET inc == LfoIncrement(frequency_, lfo_sample_rate_)
           draws == \/ waveform_ = "NOISE"
                    \/ waveform_ = "SAMPLE_HOLD" /\ holdDraws(lfo_phase_, frequency_, lfo_sample_rate_)
           next == lfo_phase_ + inc
       IN  /\ noise_state_' = IF draws THEN xorshift(noise_state_) ELSE noise_state_
           /\ hold_value_' = IF waveform_ = "SAMPLE_HOLD" /\ draws
                             THEN holdOf(noise_state_')
                             ELSE hold_value_
           /\ lfo_phase_' = IF next >= LfoPhaseScale THEN next - LfoPhaseScale ELSE next
           /\ lfoCrossed' = (next >= LfoPhaseScale)
    /\ lfoScope' = (lfoScope /\ waveform_ = "SAMPLE_HOLD")
    /\ lfoOp' = "process"
    /\ lfoCalls' = lfoCalls + 1
    /\ UNCHANGED <<frequency_, waveform_, lfo_sample_rate_>>
    /\ UNCHANGED nonLfoVars

\* LFO::reset
LFO_reset ==
    /\ lfo_phase_' = 0
    /\ hold_value_' = 0
    /\ lfoCrossed' = TRUE
    /\ lfoOp' = "reset"
    /\ UNCHANGED <<frequency_, waveform_, lfo_sample_rate_, noise_state_, lfoScope, lfoCalls>>
    /\ UNCHANGED nonLfoVars

\* a default-constructed LFO in a build whose KOEKIT_SAMPLE_RATE is rate
LfoConstructed(rate) ==
    /\ lfo_phase_ = 0
    /\ frequency_ = LFO_FREQ_DEFAULT
    /\ waveform_ = "SINE"
    /\ lfo_sample_rate_ = rate
    /\ hold_value_ = 0
    /\ noise_state_ = One32
    /\ lfoOp = NONE
    /\ lfoCrossed = TRUE
    /\ lfoScope = TRUE
    /\ lfoCalls = 0

\* the LFO is not used by the other components
InitLfoIdle == LfoConstructed(200)

InitExtraIdle == InitTableIdle /\ InitLfoIdle

\* ------------------------------------------------------------------------
\* The output pipeline
\* ------------------------------------------------------------------------
InitPipe ==
    /\ initialized_ = FALSE
    /\ output_ = FALSE
    /\ user_callback_ = NULL
    /\ output_pin_ = 1
    /\ sample_rate_ = 22050
    /\ callback_ = NULL
    /\ timer_active_ = FALSE
    /\ timer_period_us_ = 0
    /\ alarms = 0
    /\ pwm = NoWrite
    /\ pc = "idle"
    /\ stack = <<>>
    /\ argRate = 22050
    /\ argPin = 1
    /\ armOk = FALSE
    /\ lastCall = NONE
    /\ beganWhileActive = FALSE
    /\ beginRet = NONE
    /\ firedSinceRet = FALSE
    /\ isr = NoFiring

NoConversion == [sample |-> NaN, code |-> 0 - 1]

\* the mapping harness is not used by the pipeline
InitMapIdle ==
    /\ mIn = 0
    /\ mOut = NoConversion
    /\ mPrev = NoConversion

\* a default-constructed envelope of class kind in a build whose
\* KOEKIT_SAMPLE_RATE is rate
EnvConstructed(kind, rate) ==
    /\ envKind = kind
    /\ stage_ = "IDLE"
    /\ level_ = 0
    /\ target_ = 0
    /\ increment_ = 0
    /\ attack_time_ = DEFAULT_ATTACK
    /\ decay_time_ = IF kind = "ADSR" THEN DEFAULT_DECAY ELSE 0
    /\ sustain_level_ = IF kind = "ADSR" THEN DEFAULT_SUSTAIN ELSE 0
    /\ release_time_ = DEFAULT_RELEASE
    /\ env_sample_rate_ = rate
    /\ attack_inc_ = 0
    /\ decay_inc_ = 0
    /\ release_inc_ = 0
    /\ lastOp = NONE
    /\ configured = FALSE
    /\ run = NoRun

\* the envelope is not used by the pipeline
InitEnvIdle == EnvConstructed("ADSR", 10)

\* the oscillator, the noise source and the filters are not used
InitFilterIdle ==
    InitOnePoleIdle /\ InitSvfIdle /\ InitBiquadIdle /\ InitDcIdle /\ filterKind = "OnePole"

InitDspIdle == InitOscIdle /\ InitNoiseIdle /\ InitFilterIdle /\ InitExtraIdle

Init ==
    /\ InitPipe
    /\ InitMapIdle
    /\ InitEnvIdle
    /\ InitDspIdle

Next ==
    \/ \E rate \in Rates, pin \in Pins : CallBegin(rate, pin)
    \/ \E cb \in Callbacks \cup {NULL} : setAudioCallback(cb)
    \/ CallEnd
    \/ AE_begin
    \/ AE_begin_1
    \/ PWM_begin
    \/ PWM_begin_1
    \/ PWM_begin_2
    \/ setupTimer
    \/ setupTimer_1
    \/ PWM_begin_fail
    \/ PWM_begin_3
    \/ AE_begin_2
    \/ AE_begin_3
    \/ AE_end
    \/ PWM_end
    \/ stopTimer
    \/ PWM_end_1
    \/ PWM_end_2
    \/ PWM_end_3
    \/ AE_end_1
    \/ AE_end_2
    \/ timerISR

vars == <<pipeVars, mapVars, envVars, dspVars>>

Spec == Init /\ [][Next]_vars

\* ------------------------------------------------------------------------
\* Output pipeline properties
\* ------------------------------------------------------------------------
\* C1: from the moment begin() has returned true until end() is called every
\* firing re-arms the next one, so while isActive() is true and the
\* application is outside begin()/end() an alarm is pending.  Stated for the
\* runs in which the hardware accepted the last re-arm request.
C1_FiringAlwaysPending ==
    (pc = "idle" /\ isActive /\ ~isr.refused) => alarms > 0

\* C2: begin() returns true exactly when arming the timer succeeded; after a
\* begin() that returned false the pipeline is stopped, no alarm is pending
\* and no firing happens (until begin() or end() is called again).
C2_BeginResult ==
    (pc = "idle" /\ beginRet # NONE) =>
        /\ (beginRet = "true") <=> armOk
        /\ beginRet = "false" =>
              /\ ~isActive
              /\ ~timer_active_
              /\ alarms = 0
              /\ ~firedSinceRet

\* a begin() issued while a session was running has returned false
C2_Witness ==
    /\ pc = "idle"
    /\ lastCall = "begin"
    /\ beginRet = "false"
    /\ beganWhileActive
    /\ isr.fired

\* C3: after end() has returned the pipeline is stopped, no alarm is pending,
\* both callbacks are cleared, no firing happens, and the last code written
\* to the output (if the output was ever set up) is the mid-scale code.
C3_EndStops ==
    (pc = "idle" /\ lastCall = "end") =>
        /\ ~isActive
        /\ ~timer_active_
        /\ alarms = 0
        /\ callback_ = NULL
        /\ user_callback_ = NULL
        /\ ~firedSinceRet
        /\ pwm = IF output_ THEN [pin |-> output_pin_, code |-> PWM_CENTER] ELSE NoWrite

\* end() has returned after a firing interrupted it and wrote a sample that
\* is not silence
C3_Witness ==
    /\ pc = "idle"
    /\ lastCall = "end"
    /\ isr.fired
    /\ isr.at \in {"AE_end", "PWM_end", "stopTimer"}
    /\ isr.codes # <<PWM_CENTER>>
    /\ pwm.code = PWM_CENTER

\* C4: at most one timer alarm is pending at any time.
C4_OneAlarm == alarms <= 1

\* a begin() issued while running has torn the session down and armed again
C4_Witness ==
    /\ pc = "idle"
    /\ lastCall = "begin"
    /\ beganWhileActive
    /\ beginRet = "true"
    /\ alarms = 1

\* C5: a firing while the engine is running invokes the registered user
\* callback exactly once and writes exactly one code, the one its return
\* value maps to; without a user callback it invokes nothing and writes the
\* code of sample 0.0.
C5_FiringOutput ==
    (isr.fired /\ isr.active) =>
        IF isr.user # NULL
        THEN /\ isr.invoked = <<isr.user>>
             /\ Len(isr.codes) = 1
             /\ \E ub \in CastOutcomes : isr.codes[1] = sampleToPWM(isr.ret, ub)
             /\ isr.ret # NaN => isr.codes[1] = sampleToPWM(isr.ret, 0)
        ELSE /\ isr.invoked = <<>>
             /\ isr.codes = <<sampleToPWM(0, 0)>>

\* a firing while running invoked the user callback, which returned a sample
\* other than silence
C5_Witness ==
    /\ isr.fired
    /\ isr.active
    /\ isr.user # NULL
    /\ isr.ret = 5
    /\ pwm.code = sampleToPWM(5, 0)

\* C6: every code written lies in [0, PWM_MAX_VALUE]; -1.0 maps to 0, +1.0 to
\* PWM_MAX_VALUE, 0.0 to PWM_MAX_VALUE/2 within 1 and to the silence code
\* PWM_CENTER; the mapping is non-decreasing in the sample.
C6_Mapping ==
    mOut # NoConversion =>
        /\ mOut.code \in 0 .. PWM_MAX_VALUE
        /\ mOut.sample = 0 - SampleScale => mOut.code = 0
        /\ mOut.sample = SampleScale => mOut.code = PWM_MAX_VALUE
        /\ mOut.sample = 0 =>
              /\ 2 * mOut.code - PWM_MAX_VALUE \in (0 - 2) .. 2
              /\ mOut.code = PWM_CENTER
        /\ (mOut.sample # NaN /\ mOut.sample <= 0 - SampleScale) => mOut.code = 0
        /\ (mOut.sample # NaN /\ mOut.sample >= SampleScale) => mOut.code = PWM_MAX_VALUE
        /\ (/\ mPrev # NoConversion
            /\ mPrev.sample # NaN
            /\ mOut.sample # NaN
            /\ mPrev.sample <= mOut.sample) => mPrev.code <= mOut.code

\* a sample below -1.0 was converted after a sample inside the range
C6_Witness ==
    /\ mPrev.sample = 0 - SampleScale - MaxOver
    /\ mPrev.code = 0
    /\ mOut.sample = 0 - 3
    /\ mOut.code > 0

\* ------------------------------------------------------------------------
\* One envelope instance, ADSR or AR, under every sequence of its operations
\* ------------------------------------------------------------------------
InitEnv ==
    /\ InitPipe
    /\ InitMapIdle
    /\ InitDspIdle
    /\ \E kind \in {"ADSR", "AR"}, rate \in EnvRates : EnvConstructed(kind, rate)

NextEnv ==
    \/ \E args \in ADSRArgs : setADSR(args[1], args[2], args[3], args[4])
    \/ \E a \in TimeArgs : setAttack(a)
    \/ \E d \in TimeArgs : setDecay(d)
    \/ \E s \in SustainArgs : setSustain(s)
    \/ \E r \in TimeArgs : setRelease(r)
    \/ \E sr \in EnvRates : setSampleRate(sr)
    \/ noteOn
    \/ noteOff
    \/ process
    \/ reset
    \/ \E a \in ARTimeArgs, r \in ARTimeArgs : setAR(a, r)
    \/ \E sr \in EnvRates : AR_setSampleRate(sr)
    \/ trigger
    \/ AR_process
    \/ AR_reset

SpecEnv == InitEnv /\ [][NextEnv]_vars

\* every process() call that is due is eventually made
FairEnv == WF_vars(process) /\ WF_vars(AR_process)

SpecEnvFair == InitEnv /\ [][NextEnv]_vars /\ FairEnv

\* ------------------------------------------------------------------------
\* Envelope properties
\* ------------------------------------------------------------------------
\* the stage changes process() may make
ProcessEdges == {<<"ATTACK", "DECAY">>, <<"DECAY", "SUSTAIN">>, <<"RELEASE", "IDLE">>}

\* what one ADSR operation (named by lastOp') may do to the stage
C7_Step ==
    /\ lastOp' = "noteOn" => stage_' = "ATTACK"
    /\ lastOp' = "noteOff" =>
          IF stage_ = "IDLE"
          THEN stage_' = "IDLE" /\ level_' = level_ /\ increment_' = increment_
          ELSE stage_' = "RELEASE"
    /\ lastOp' = "process" => (stage_' = stage_ \/ <<stage_, stage_'>> \in ProcessEdges)
    /\ lastOp' = "reset" => stage_' = "IDLE"
    /\ lastOp' = "set" => stage_' = stage_
    /\ env_isActive' <=> stage_' \in {"ATTACK", "DECAY", "SUSTAIN", "RELEASE"}

\* C7: the ADSR stage changes only along noteOn: any -> Attack; noteOff:
\* non-Idle -> Release and nothing from Idle; process: Attack -> Decay,
\* Decay -> Sustain, Release -> Idle; reset: any -> Idle; setters: none; and
\* isActive() is true exactly in the non-Idle stages.
C7_StageEdges == [][envKind = "ADSR" => C7_Step]_vars

\* a whole cycle has run: the release counted from a noteOff() in Sustain
\* has ended in Idle
C7_Witness ==
    /\ envKind = "ADSR"
    /\ run.kind = "release"
    /\ lastOp = "process"
    /\ stage_ = "IDLE"

\* C8: after noteOn() (ADSR) or trigger() (AR), process() calls with no other
\* call in between eventually leave Attack: no run ends in process() calls
\* only with the envelope still in Attack.
C8_AttackCompletes == []<>~(stage_ = "ATTACK" /\ lastOp = "process")

\* C9: after noteOff() in a non-Idle stage, process() calls with no other
\* call in between eventually reach Idle: no run ends in process() calls only
\* with the envelope still in Release and active.
C9_ReleaseCompletes ==
    []<>~(envKind = "ADSR" /\ stage_ = "RELEASE" /\ env_isActive /\ lastOp = "process")

\* C10: on a configured ADSR, attack_seconds * sample_rate process() calls
\* after a noteOn() from Idle give a level >= 1 - eps, and
\* release_seconds * sample_rate process() calls after a noteOff() in Sustain
\* give a level <= eps and isActive() false (eps: one grid step).
C10_Timing ==
    (envKind = "ADSR" /\ run.kind # NONE /\ run.n = run.need) =>
        /\ run.kind = "attack" => FGe(level_, LevelScale - 1)
        /\ run.kind = "release" => (FLe(level_, 1) /\ ~env_isActive)

\* C11: in every state of an ADSR the level lies in [0,1], the sustain level
\* lies in [0,1] and the attack, decay and release times are >= 1 ms; in
\* every state of an AR the level lies in [0,1].
C11_EnvelopeBounds ==
    /\ FGe(level_, 0) /\ FLe(level_, LevelScale)
    /\ envKind = "ADSR" =>
          /\ FGe(sustain_level_, 0) /\ FLe(sustain_level_, LevelScale)
          /\ attack_time_ >= MIN_TIME
          /\ decay_time_ >= MIN_TIME
          /\ release_time_ >= MIN_TIME

\* what one AR operation (named by lastOp') may do to stage and level
C12_Step ==
    /\ lastOp' = "trigger" => (stage_' = "ATTACK" /\ level_' = level_)
    /\ (lastOp' = "process" /\ stage_ = "IDLE") => stage_' = "IDLE"
    /\ (lastOp' = "process" /\ stage_ = "ATTACK") =>
          \/ stage_' = "ATTACK" /\ level_' < LevelScale
          \/ stage_' = "RELEASE" /\ level_' = LevelScale
                /\ level_ + increment_ >= LevelScale
    /\ (lastOp' = "process" /\ stage_ = "RELEASE") =>
          \/ stage_' = "RELEASE" /\ level_' > 0
          \/ stage_' = "IDLE" /\ level_' = 0 /\ level_ + increment_ <= 0

\* C12: AR::trigger() in any stage gives Attack and keeps the level;
\* process() leaves Attack only for Release and only with the level at 1,
\* and leaves Release only for Idle and only with the level at 0.
C12_ARStages == [][envKind = "AR" => C12_Step]_vars

\* trigger() has just restarted the attack from a level that the attack ramp
\* from 0 does not pass through (the envelope was on its way down)
C12_Witness ==
    /\ envKind = "AR"
    /\ lastOp = "trigger"
    /\ stage_ = "ATTACK"
    /\ level_ > 0 /\ level_ < LevelScale
    /\ attack_inc_ > 0 /\ level_ % attack_inc_ # 0

\* the step of the current stage as updateIncrements last computed it
DerivedIncrement ==
    CASE stage_ = "ATTACK" -> attack_inc_
      [] stage_ = "DECAY" -> FNeg(decay_inc_)
      [] stage_ = "RELEASE" -> FNeg(release_inc_)
      [] OTHER -> increment_

\* a process() call that directly follows a setter applies the step derived
\* from the parameters as they now are
C13_Step ==
    (lastOp = "set" /\ lastOp' = "process" /\ stage_ \in {"ATTACK", "DECAY", "RELEASE"}) =>
        IF envKind = "ADSR"
        THEN LET e == processStep(stage_, level_, target_, DerivedIncrement)
             IN  stage_' = e.stage /\ level_' = e.level
        ELSE LET e == AR_processStep(stage_, level_, DerivedIncrement)
             IN  stage_' = e.stage /\ level_' = e.level

\* C13: after setADSR/setAttack/setDecay/setRelease, setAR or setSampleRate
\* during a stage, the next process() call in that stage steps by the
\* increment derived from the new parameter values.
C13_IncrementFollowsSetter == [][C13_Step]_vars

\* ------------------------------------------------------------------------
\* The sample mapping on its own: every grid sample is converted in turn
\* ------------------------------------------------------------------------
\* PWMAudioOutput::writeSample applied to the sample mIn
MapWriteSample ==
    /\ \E ub \in CastOutcomes, nxt \in Samples :
          /\ mIn # NaN => ub = 0
          /\ mPrev' = mOut
          /\ mOut' = [sample |-> mIn, code |-> sampleToPWM(mIn, ub)]
          /\ mIn' = nxt
    /\ UNCHANGED <<pipeVars, envVars, dspVars>>

InitMap ==
    /\ InitPipe
    /\ InitEnvIdle
    /\ InitDspIdle
    /\ mIn \in Samples
    /\ mOut = NoConversion
    /\ mPrev = NoConversion

NextMap == MapWriteSample

SpecMap == InitMap /\ [][NextMap]_vars

\* ------------------------------------------------------------------------
\* One oscillator under every sequence of its operations
\* ------------------------------------------------------------------------
InitOsc ==
    /\ InitPipe
    /\ InitMapIdle
    /\ InitEnvIdle
    /\ InitNoiseIdle /\ InitFilterIdle /\ InitExtraIdle
    /\ \E t \in Tables, rate \in OscRates : OscConstructed(t, rate)

NextOsc ==
    \/ \E f \in FreqArgs : Osc_setFrequency(f)
    \/ \E sr \in OscRates : Osc_setSampleRate(sr)
    \/ \E p \in PhaseArgs : Osc_setPhase(p)
    \/ \E a \in AmpArgs : Osc_setAmplitude(a)
    \/ \E t \in Tables : Osc_setWavetable(t)
    \/ tick
    \/ Osc_process
    \/ Osc_reset

SpecOsc == InitOsc /\ [][NextOsc]_vars

\* C14: the stored phase, and every value tick() returns, lies in [0,1).
C14_PhaseInRange ==
    /\ phase_ >= 0 /\ phase_ < PhaseScale
    /\ oscOp = "tick" => (oscRet >= 0 /\ oscRet < PhaseScale)

\* C15: counted from phase 0 (construction or reset()), the k-th process()
\* call returns amplitude times the table value at phase
\* (k-1) * frequency / sample_rate wrapped into [0,1); the first call returns
\* the value at phase 0.
C15_StartsAtPhaseZero ==
    (oscOp = "process" /\ oscRun >= 1) =>
        oscRet = OscOutput(wavetable_, ((oscRun - 1) * phase_increment_) % PhaseScale,
                           amplitude_)

\* C16: after setFrequency(f) the stored frequency is non-negative and the
\* per-sample phase increment lies in [0,1).
C16_FrequencyClamped ==
    oscOp = "setFrequency" =>
        /\ getCurrentFrequency >= 0
        /\ phase_increment_ >= 0 /\ phase_increment_ < PhaseScale

\* what one oscillator operation (named by oscOp') may change
C17_Step ==
    /\ oscOp' = "setWavetable" =>
          UNCHANGED <<phase_, phase_increment_, osc_sample_rate_, amplitude_>>
    /\ oscOp' = "reset" =>
          /\ phase_' = 0
          /\ UNCHANGED <<phase_increment_, osc_sample_rate_, amplitude_, wavetable_>>
    /\ oscOp' = "setAmplitude" =>
          /\ amplitude_' \in ClampOutcomes(oscArg', 0, AmpScale)
          /\ UNCHANGED <<phase_, phase_increment_, osc_sample_rate_, wavetable_>>

\* C17: setWavetable() changes only the table reference; reset() zeroes the
\* phase and keeps increment, amplitude and table; setAmplitude(a) stores
\* clamp(a, 0, 1) and changes nothing else.
C17_OscFrames == [][C17_Step]_vars

\* reset() has been called on an oscillator that was running on the other
\* table with a changed amplitude: phase 0, everything else as it was
C17_Witness ==
    /\ oscOp = "reset"
    /\ phase_ = 0
    /\ phase_increment_ # 0
    /\ amplitude_ = 1
    /\ wavetable_ = "SQUARE"
    /\ oscRet # 0

\* ------------------------------------------------------------------------
\* One noise source under every sequence of its operations
\* ------------------------------------------------------------------------
InitNoise ==
    /\ InitPipe
    /\ InitMapIdle
    /\ InitEnvIdle
    /\ InitOscIdle /\ InitFilterIdle /\ InitExtraIdle
    /\ \E seed \in Seeds : NoiseConstructed(seed)

NextNoise ==
    \/ \E seed \in Seeds : Noise_reset(seed)
    \/ Noise_process

SpecNoise == InitNoise /\ [][NextNoise]_vars

\* C18: the xorshift state is never 0, and after the seed 0 (constructor or
\* reset) the states, hence the outputs, are those of a source seeded with 1.
C18_StateNonZero ==
    /\ state_ # Zero32
    /\ noiseSeed = Zero32 => state_ = twin_state_

\* process() has run to the bound after reset(0)
C18_Witness ==
    /\ noiseSeed = Zero32
    /\ noiseOp = "process"
    /\ noiseCalls = MaxNoiseCalls
    /\ noiseRet = state_

\* ------------------------------------------------------------------------
\* One one-pole filter under every sequence of its operations
\* ------------------------------------------------------------------------
InitOnePole ==
    /\ InitPipe
    /\ InitMapIdle
    /\ InitEnvIdle
    /\ InitOscIdle /\ InitNoiseIdle /\ InitExtraIdle
    /\ InitSvfIdle /\ InitBiquadIdle /\ InitDcIdle /\ filterKind = "OnePole"
    /\ \E rate \in FilterRates : OnePoleConstructed(rate)

NextOnePole ==
    \/ \E c \in CutoffArgs : OnePole_setCutoff(c)
    \/ \E sr \in FilterRates : OnePole_setSampleRate(sr)
    \/ \E x \in FilterInputs : processLPF(x)
    \/ \E x \in FilterInputs : processHPF(x)
    \/ OnePole_reset

SpecOnePole == InitOnePole /\ [][NextOnePole]_vars

\* C19: for every state, cutoff and input x, the value processHPF(x) returns
\* and the value processLPF(x) returns from the same state sum to x.
C19_Complementary ==
    opOp = "processHPF" => opRet + lowPass(opPrev, opIn) = opIn

\* processHPF has run on a filter with a set cutoff and a non-zero state,
\* and both outputs are non-zero
C19_Witness ==
    /\ opOp = "processHPF"
    /\ a0_ # CoefScale /\ b1_ # 0
    /\ opPrev # 0
    /\ opRet # 0 /\ opRet # opIn

\* ------------------------------------------------------------------------
\* One state-variable filter: parameter changes and impulse responses
\* ------------------------------------------------------------------------
InitSvf ==
    /\ InitPipe
    /\ InitMapIdle
    /\ InitEnvIdle
    /\ InitOscIdle /\ InitNoiseIdle /\ InitExtraIdle
    /\ InitOnePoleIdle /\ InitBiquadIdle /\ InitDcIdle /\ filterKind = "StateVariable"
    /\ \E rate \in FilterRates : SvfConstructed(rate)

NextSvf ==
    \/ \E c \in CutoffArgs, r \in ResonanceArgs : SVF_setParams(c, r)
    \/ \E c \in CutoffArgs : SVF_setCutoff(c)
    \/ \E r \in ResonanceArgs : SVF_setResonance(r)
    \/ \E sr \in FilterRates : SVF_setSampleRate(sr)
    \/ \E x \in SvfInputs \cup {0} : SVF_process(x)
    \/ SVF_reset

SpecSvf == InitSvf /\ [][NextSvf]_vars

\* C20: for every cutoff and resonance the setters store, the response to a
\* unit impulse followed by zero input stays bounded: low, band and high
\* never exceed SvfBound in magnitude.
C20_ImpulseBounded ==
    (svfOp # NONE /\ svfRun >= 1) =>
        (Abs(low_) <= SvfBound /\ Abs(band_) <= SvfBound /\ Abs(high_) <= SvfBound)

\* C21: after any sequence of setCutoff/setParams/setResonance/setSampleRate
\* calls the one-pole cutoff lies in [1, 0.49 * sample_rate], the
\* state-variable cutoff in [1, 0.45 * sample_rate] and the state-variable
\* resonance in [0.1, 10], sample_rate being the filter's current rate.
C21_FilterRanges ==
    /\ op_cutoff_ >= 1 /\ 100 * op_cutoff_ <= 49 * op_sample_rate_
    /\ svf_cutoff_ >= 1 /\ 100 * svf_cutoff_ <= 45 * svf_sample_rate_
    /\ resonance_ >= RES_MIN /\ resonance_ <= RES_MAX

\* ------------------------------------------------------------------------
\* One filter of any of the four classes under every sequence of its
\* operations
\* ------------------------------------------------------------------------
InitFilters ==
    /\ InitPipe
    /\ InitMapIdle
    /\ InitEnvIdle
    /\ InitOscIdle /\ InitNoiseIdle /\ InitExtraIdle
    /\ filterKind \in FilterKinds
    /\ \E rate \in FilterRates :
          /\ OnePoleConstructed(IF filterKind = "OnePole" THEN rate ELSE 22050)
          /\ SvfConstructed(IF filterKind = "StateVariable" THEN rate ELSE 22050)
          /\ BiquadConstructed(IF filterKind = "Biquad" THEN rate ELSE 22050)
    /\ DcConstructed

NextBiquad ==
    \/ \E k \in BiquadCoefArgs : setCoefficients(k[1], k[2], k[3], k[4], k[5])
    \/ \E c \in BiquadCutoffs : setLowPass(c)
    \/ \E c \in BiquadCutoffs : setHighPass(c)
    \/ \E c \in BiquadCutoffs : setBandPass(c)
    \/ \E sr \in FilterRates : Biquad_setSampleRate(sr)
    \/ \E x \in BiquadInputs : Biquad_process(x)
    \/ Biquad_reset

NextDc ==
    \/ \E x \in DcInputs : DC_process(x)
    \/ DC_reset

NextFilters ==
    \/ filterKind = "OnePole" /\ NextOnePole
    \/ filterKind = "StateVariable" /\ NextSvf
    \/ filterKind = "Biquad" /\ NextBiquad
    \/ filterKind = "DCBlocker" /\ NextDc

SpecFilters == InitFilters /\ [][NextFilters]_vars

\* the history values of the four filters are all 0
HistoryZero ==
    /\ y1_ = 0
    /\ low_ = 0 /\ band_ = 0 /\ high_ = 0
    /\ bq_x1_ = 0 /\ bq_x2_ = 0 /\ bq_y1_ = 0 /\ bq_y2_ = 0
    /\ dc_x1_ = 0 /\ dc_y1_ = 0

\* the filter's history and last output are those of the second instance
SameAsFresh ==
    /\ y1_ = op_fresh_.y1
    /\ opOp \in {"processLPF", "processHPF"} => opRet = op_fresh_.out
    /\ low_ = svf_fresh_.low /\ band_ = svf_fresh_.band /\ high_ = svf_fresh_.high
    /\ bq_x1_ = bq_fresh_.x1 /\ bq_x2_ = bq_fresh_.x2
    /\ bq_y1_ = bq_fresh_.y1 /\ bq_y2_ = bq_fresh_.y2
    /\ bqOp = "process" => bqRet = bq_fresh_.out
    /\ dc_x1_ = dc_fresh_.x1 /\ dc_y1_ = dc_fresh_.y1
    /\ dcOp = "process" => dcRet = dc_fresh_.out

\* what a reset() call (named by the operation variable of its class) does
C22_Step ==
    /\ (opOp' = "reset" \/ svfOp' = "reset" \/ bqOp' = "reset" \/ dcOp' = "reset") =>
          /\ HistoryZero'
          /\ UNCHANGED <<a0_, b1_, op_cutoff_, op_sample_rate_>>
          /\ UNCHANGED <<f_, q_, svf_cutoff_, resonance_, svf_sample_rate_>>
          /\ UNCHANGED <<bq_coef_, bq_sample_rate_>>
    /\ SameAsFresh'

\* C22: reset() of OnePole, StateVariable, Biquad and DCBlocker zeroes every
\* history value and leaves coefficients, cutoff, resonance and sample rate
\* unchanged; from then on the filter's history and outputs are those of a
\* newly constructed filter with the same coefficients given the same
\* process() calls.
C22_ResetAsFresh == [][C22_Step]_vars

\* reset() has just been called on a biquad with set coefficients whose
\* last process() call returned a non-zero value (kept in its history)
C22_Witness ==
    /\ filterKind = "Biquad"
    /\ bqOp = "reset"
    /\ bq_coef_ # BiquadDefaultCoef
    /\ bqRet # 0
    /\ HistoryZero

\* ------------------------------------------------------------------------
\* One wavetable: built from every generator over GenValues, then looked up
\* ------------------------------------------------------------------------
InitTable ==
    /\ InitPipe
    /\ InitMapIdle
    /\ InitEnvIdle
    /\ InitOscIdle /\ InitNoiseIdle /\ InitFilterIdle /\ InitLfoIdle
    /\ gen_ \in UNION {[1..n -> GenValues] : n \in TableSizes}
    /\ tbl_ = <<>>
    /\ tblOp = NONE
    /\ tblArg = 0
    /\ tblRet = 0

NextTable ==
    \/ generateWavetable
    \/ makeWavetable
    \/ makeWavetableFromArray
    \/ \E i \in 0..(2^IndexBits - 1) : Table_getSample(i)
    \/ \E x \in FracIndexes(Len(gen_)) : Table_getInterpolated(x)

SpecTable == InitTable /\ [][NextTable]_vars

\* i + N as the unsigned index type computes it
IndexPlusSize == (tblArg + Len(tbl_)) % (2^IndexBits)

\* C23: for every table size N, power of two or not, and every index i of
\* the unsigned index type, getSample(i) is the stored sample at i mod N and
\* equals getSample(i + N), i + N computed in the index type.
C23_Periodic ==
    tblOp = "getSample" =>
        /\ tblRet = tbl_[(tblArg % Len(tbl_)) + 1]
        /\ tblRet = getSample(tbl_, IndexPlusSize)

\* C23 as amended: getSample(i) is the stored sample at i mod N, and equals
\* getSample(i + N) whenever i + N does not wrap around in the index type
\* or N divides the number of values of the index type.
C23_PeriodicNoWrap ==
    tblOp = "getSample" =>
        /\ tblRet = tbl_[(tblArg % Len(tbl_)) + 1]
        /\ (tblArg + Len(tbl_) < 2^IndexBits \/ (2^IndexBits) % Len(tbl_) = 0) =>
              tblRet = getSample(tbl_, IndexPlusSize)

\* getSample was called on a table of three different samples with the
\* largest index whose successor period does not wrap
C23_Witness ==
    /\ tblOp = "getSample"
    /\ Len(tbl_) = 3
    /\ tbl_[1] # tbl_[2] /\ tbl_[2] # tbl_[3] /\ tbl_[1] # tbl_[3]
    /\ tblArg = 2^IndexBits - 1 - Len(tbl_)
    /\ tblRet = tbl_[(tblArg % 3) + 1]

\* the stored sample s is the generator value v clamped to [-1,1], scaled by
\* SAMPLE_SCALE and cut to an integer toward zero
StoredFor(v, s) ==
    /\ s >= 0 - SAMPLE_SCALE /\ s <= SAMPLE_SCALE
    /\ v >= GenScale => s = SAMPLE_SCALE
    /\ v <= 0 - GenScale => s = 0 - SAMPLE_SCALE
    /\ (v > 0 - GenScale /\ v < GenScale) =>
          /\ Abs(s) * GenScale <= Abs(v) * SAMPLE_SCALE
          /\ Abs(v) * SAMPLE_SCALE - Abs(s) * GenScale < GenScale
          /\ (s > 0 => v > 0) /\ (s < 0 => v < 0)

\* C24: a built table has exactly N entries, one per index, and every stored
\* sample is the generator's (or input array's) value clamped to [-1,1] and
\* scaled by 32767, hence within [-32767, 32767], also for values outside
\* [-1,1].
C24_Generated ==
    tbl_ # <<>> =>
        /\ DOMAIN tbl_ = 1..Len(gen_)
        /\ \A i \in 1..Len(gen_) : StoredFor(gen_[i], tbl_[i])

\* a table was built from values above 1, below -1 and strictly inside
C24_Witness ==
    /\ tblOp \in {"generateWavetable", "makeWavetable", "makeWavetableFromArray"}
    /\ Len(tbl_) = 4
    /\ gen_[1] > GenScale /\ tbl_[1] = SAMPLE_SCALE
    /\ gen_[2] < 0 - GenScale /\ tbl_[2] = 0 - SAMPLE_SCALE
    /\ tbl_[3] < 0 /\ tbl_[3] > 0 - SAMPLE_SCALE
    /\ tbl_[4] > 0 /\ tbl_[4] < SAMPLE_SCALE

\* floor(x) for the index last looked up, and the position of x above it
FloorIndex == tblArg \div IdxScale
FracPart == tblArg % IdxScale

InitLfo ==
    /\ InitPipe
    /\ InitMapIdle
    /\ InitEnvIdle
    /\ InitOscIdle /\ InitNoiseIdle /\ InitFilterIdle /\ InitTableIdle
    /\ \E rate \in LfoRates : LfoConstructed(rate)

NextLfo ==
    \/ \E f \in LfoFreqArgs : LFO_setFrequency(f)
    \/ \E w \in WaveformArgs : LFO_setWaveform(w)
    \/ \E sr \in LfoRates : LFO_setSampleRate(sr)
    \/ LFO_process
    \/ LFO_reset

SpecLfo == InitLfo /\ [][NextLfo]_vars

\* a process() call in SAMPLE_HOLD mode, all process() calls so far having
\* run in that mode and setSampleRate never called, draws a new held value
\* exactly when the phase is at the start of a cycle, and leaves the phase
\* in [0,1)
C26_Step ==
    (lfoOp' = "process" /\ lfoCalls' = lfoCalls + 1 /\ lfoScope') =>
        /\ (noise_state_' # noise_state_) <=> lfoCrossed
        /\ (noise_state_' = noise_state_) => hold_value_' = hold_value_
        /\ lfo_phase_' >= 0 /\ lfo_phase_' < LfoPhaseScale

\* C26: in SAMPLE_HOLD mode, for any sequence of process() and
\* setFrequency() calls, the held value is re-randomized exactly on the
\* first process() call and on each call right after the phase wrapped, and
\* is unchanged on every other call; the phase stays in [0,1).
C26_HoldOncePerCycle == [][C26_Step]_vars

\* C27: every process() call ends within a number of steps fixed in advance,
\* whatever the state and the parameters; the wrap loops of getInterpolated
\* reached from WavetableOscillator::process run at most once (what a looked
\* up phase in [0,1] needs).
C27_BoundedWrapLoops == oscOp = "process" => oscLoops <= 1

\* C28: once a begin() issued while the engine was running has returned, no
\* user callback is registered and every firing writes silence, until
\* setAudioCallback() is called again; during and after a begin() issued
\* while stopped, every firing invokes the callback that was registered
\* beforehand, the first firing included.
C28_BeginAndCallback ==
    /\ (lastCall = "begin" /\ beganWhileActive /\ pc = "idle") =>
          /\ user_callback_ = NULL
          /\ firedSinceRet => (isr.invoked = <<>> /\ isr.codes = <<PWM_CENTER>>)
    /\ (lastCall = "begin" /\ ~beganWhileActive /\ firedSinceRet /\ isr.user # NULL) =>
          isr.invoked = <<isr.user>>

\* the low-pass value a one-pole step stores for the input of the step
StoredLowPass == Mul(a0_, opIn') + Mul(b1_, y1_)

\* what a processLPF or processHPF step does to the stored value, and what
\* it returns
C29_Step ==
    /\ opOp' = "processLPF" => (y1_' = StoredLowPass /\ opRet' = y1_')
    /\ opOp' = "processHPF" => (y1_' = StoredLowPass /\ opRet' = opIn' - y1_')
    /\ (opOp = "processLPF" /\ opOp' = "processHPF") =>
          y1_' = Mul(a0_, opIn') + Mul(b1_, opRet)

\* C29: processHPF(x) stores the same low-pass value as processLPF(x) from
\* the same prior state and returns x minus it; processHPF(x) right after
\* processLPF(x) therefore starts from the value processLPF stored and
\* advances the filter a second step.
C29_HighPassAdvances == [][C29_Step]_vars

\* processHPF has followed processLPF with the same non-zero input on a
\* filter with a set cutoff, and both calls changed the stored value
C29_Witness ==
    /\ opOp = "processHPF"
    /\ a0_ # CoefScale /\ a0_ # 0
    /\ opIn # 0
    /\ opPrev # 0 /\ opPrev # opIn
    /\ y1_ # opPrev
    /\ opRet = opIn - y1_


\* the coefficients the two filters hold, as updateCoefficients returns them
OnePoleCoefs == [a0 |-> a0_, b1 |-> b1_]
SvfCoefs == [f |-> f_, q |-> q_]

\* C30: in every reachable state, a default-constructed filter included, the
\* coefficients process uses (a0/b1 of OnePole, f/q of StateVariable) are
\* the ones derived from the stored cutoff, resonance and sample rate.
C30_CoefficientsConsistent ==
    /\ OnePoleCoefs = OnePole_updateCoefficients(op_cutoff_, op_sample_rate_)
    /\ SvfCoefs = SVF_updateCoefficients(svf_cutoff_, resonance_, svf_sample_rate_)

====
